---- MODULE Spec2Model ----
(***************************************************************************)
(* Kubito webview animation controller (class KubitoController).           *)
(*                                                                         *)
(* The controller is single threaded: every handler below runs to          *)
(* completion, so one action is one callback (a frame, a timer, a pointer  *)
(* or key event, a message from the extension host).                       *)
(*                                                                         *)
(* Units.  Lengths are hundredths of a CSS pixel (PX per pixel), so that   *)
(* SPEED = 0.08 px is the integer 8; products with the physics             *)
(* coefficients are truncated towards zero to that resolution.  Times are  *)
(* milliseconds of Date.now(); the clock advances by TimeStep.             *)
(***************************************************************************)
EXTENDS Integers, Sequences, FiniteSets, TLC

\* ------------------------------------------------------------------ units
PX == 10 * 10
Null == 0 - 1

Abs(x) == IF x < 0 THEN 0 - x ELSE x
Min(a, b) == IF a < b THEN a ELSE b
Max(a, b) == IF a > b THEN a ELSE b
\* a * num / den on the fixed-point grid, truncated towards zero
MulDiv(a, num, den) ==
  IF a * num >= 0 THEN (a * num) \div den ELSE 0 - ((0 - (a * num)) \div den)

\* ------------------------------------------------------ KUBITO_CONFIG (ms)
WANDERING_MIN == 4000
WANDERING_MAX == 8000
PAUSE_MIN == 1000
PAUSE_MAX == 2500
WAVING_DURATION == 1500
JUMP_DURATION == 800
POST_JUMP_COOLDOWN == 1000
TALKING_DURATION == 3000
POST_TALKING_PAUSE == 100
JUMP_TIMER_DELAY == 200
JUMP_RESET_DELAY == 100
DRAG_THRESHOLD == 5 * PX

\* ------------------------------------------- KUBITO_CONFIG (lengths, rates)
SPEED == (8 * PX) \div 100
KUBITO_WIDTH == 36 * PX
KUBITO_HEIGHT == 36 * PX
GRAVITY == (5 * PX) \div 10
TERMINAL_VELOCITY == 15 * PX
MIN_BOUNCE_VELOCITY == 2 * PX
THROW_MAX_VELOCITY == 20 * PX
THROW_MIN_VELOCITY == (5 * PX) \div 10
\* coefficients, in percent
SAFE_ZONE_MARGIN == 15
BOUNCE_DAMPING == 40
THROW_VELOCITY_SCALE == 50
THROW_FRICTION == 98
LOOKAHEAD_FRAMES == 10

\* ---------------------------------------------------------- MESSAGE_CONFIG
DELAY_MIN == 3000
DELAY_MAX == 7000
DURATION == 3000

\* ----------------------------------------------------------------- bounds
\* Date.now() at construction: any instant later than the cooldowns after 0
StartTime == 10 * POST_JUMP_COOLDOWN
\* the clock advances by TimeStep up to MaxTime; while the frame loop runs,
\* one animation frame runs per clock step (a throttled render tick)
TimeStep == 500
MaxTime == 6000
\* external events in one run: presses, pointer moves, forced messages,
\* resizes, stop() calls
MaxEvents == 3

\* the values Math.random() is sampled at
WanderingDurations == {WANDERING_MIN}
PauseDurations == {PAUSE_MIN}
SchedulerDelays == {DELAY_MIN}

\* viewport sizes (window.innerWidth x window.innerHeight), in pixels
InitViewport == <<130, 40>>
Viewports == {<<130, 40>>, <<60, 38>>}
\* pointer coordinates of document-level events, in pixels
MouseXs == {0 - 1, 18, 70}
MouseYs == {20}
\* where on the sprite a press lands (offset from its left / bottom edge)
GrabOffsetsX == {18}
GrabOffsetsY == {18, 20}

\* the localization module as its import leaves it: currentLanguage is
\* DEFAULT_LANGUAGE, nothing has been called or returned; an English editor
\* (vscode.env.language as its parts between '-') with the kubito.language
\* setting at 'auto'
DEFAULT_LANGUAGE == "en"
ModuleLoaded ==
  [currentLanguage |-> DEFAULT_LANGUAGE, envLanguage |-> <<"en">>,
   configLanguage |-> "auto", returned |-> "none",
   call |-> [op |-> "none", language |-> ""]]

\* no ProductivityManager has been constructed
NoManager ==
  [listeners |-> 0, metricsTimer |-> FALSE, metricsDue |-> 0, metricsPeriod |-> 0,
   sessionStart |-> 0, linesWritten |-> 0, linesDeleted |-> 0,
   filesModified |-> {}, totalKeystrokes |-> 0, activeTimeMs |-> 0,
   lastActivityTime |-> 0, lastKeystrokeTime |-> 0, languages |-> <<>>,
   posted |-> "none", insights |-> [sessionDurationMs |-> 0, activeTimeMs |-> 0],
   event |-> [contentChanges |-> <<>>,
              document |-> [fileName |-> "", languageId |-> ""]],
   call |-> "none", nChanges |-> 0, nQueries |-> 0]

\* the wall clock while the controller is observed (a Monday, 9 o'clock), and
\* the value of selection before a pool has been asked for
StartClock == [hour |-> 9, dayOfWeek |-> 1]
NoSelection == [enabled |-> FALSE, contexts |-> <<>>, pool |-> <<>>]

\* messages: the ones the host forces, and the scheduler's own draw
EventMessages == {"saved", "commit"}
RandomMessages == {"random"}
\* offsetWidth the DOM reports for a rendered bubble
MessageWidth(m) == IF m = "commit" THEN 120 * PX ELSE 40 * PX

\* ------------------------------------------------------------------ state
VARIABLES
  \* IAnimationState
  position, direction, animationId, isJumping, isShowingMessage,
  messageInterval, hasAdjustedDirectionForMessage, jumpStartTime,
  jumpCompleted,
  \* wandering behaviour
  kubitoState, stateStartTime, currentStateDuration, currentImageState,
  isTransitioning, lastJumpTime, lastLandingTime,
  \* drag & drop
  verticalPosition, fallingVelocity, isDragging, dragOffsetX, dragOffsetY,
  mouseDownTime, mouseDownX, mouseDownY, hasMoved,
  \* throw physics
  lastMouseX, lastMouseY, lastMouseTime, throwVelocityX, throwVelocityY,
  bounceCount,
  \* the page: .speech-bubble children of the container, pending setTimeout
  \* callbacks, container.clientWidth / clientHeight
  bubbles, timers, containerWidth, containerHeight,
  \* the public field speed: no method of the controller assigns it
  speed,
  \* the environment: Date.now(), the physical mouse button, whether this
  \* clock step's frame has run, the number of external events so far
  now, buttonDown, frameDone, nEvents,
  \* history: the latest external event and the state it arrived in; how far
  \* the pointer has travelled from where the press in progress landed; the
  \* speed the latest floor bounce of the fall in progress left with
  lastEvent, pressMoved, lastRebound,
  \* the wall clock new Date() reads (getHours(), getDay()), and the setting,
  \* contexts and pool of the latest getContextualMessages() call
  clock, selection,
  \* the extension host: the localization module (currentLanguage, the
  \* display language and the kubito.language setting it reads, the table
  \* its latest call returned) and the ProductivityManager
  localization, productivity

ctlVars ==
  <<position, direction, animationId, isJumping, isShowingMessage,
    messageInterval, hasAdjustedDirectionForMessage, jumpStartTime,
    jumpCompleted, kubitoState, stateStartTime, currentStateDuration,
    currentImageState, isTransitioning, lastJumpTime, lastLandingTime,
    verticalPosition, fallingVelocity, isDragging, dragOffsetX, dragOffsetY,
    mouseDownTime, mouseDownX, mouseDownY, hasMoved, lastMouseX, lastMouseY,
    lastMouseTime, throwVelocityX, throwVelocityY, bounceCount, bubbles,
    timers>>
envVars ==
  <<localization, productivity, clock, selection, speed, containerWidth, containerHeight, now, buttonDown,
    frameDone, nEvents, lastEvent, pressMoved, lastRebound>>
vars == <<ctlVars, envVars>>

\* KubitoState
WAVING == "waving"
WANDERING == "wandering"
PAUSED == "paused"
JUMPING == "jumping"
TALKING == "talking"
DRAGGING == "dragging"
FALLING == "falling"
KubitoStates == {WAVING, WANDERING, PAUSED, JUMPING, TALKING, DRAGGING, FALLING}

\* the id requestAnimationFrame hands back for the pending animate() callback
RafId == 1 + 0

\* the record kept of an external event: what it was and what it found
Event(kind, message) ==
  [kind |-> kind, message |-> message, wasState |-> kubitoState,
   wasJumping |-> isJumping, wasShowing |-> isShowingMessage,
   wasMessage |-> IF bubbles = <<>> THEN "" ELSE Head(bubbles).content]

\* the controller and the page it writes, as one value the handlers thread
Self ==
  [position |-> position, direction |-> direction, animationId |-> animationId,
   isJumping |-> isJumping, isShowingMessage |-> isShowingMessage,
   messageInterval |-> messageInterval,
   hasAdjustedDirectionForMessage |-> hasAdjustedDirectionForMessage,
   jumpStartTime |-> jumpStartTime, jumpCompleted |-> jumpCompleted,
   kubitoState |-> kubitoState, stateStartTime |-> stateStartTime,
   currentStateDuration |-> currentStateDuration,
   currentImageState |-> currentImageState,
   isTransitioning |-> isTransitioning, lastJumpTime |-> lastJumpTime,
   lastLandingTime |-> lastLandingTime, verticalPosition |-> verticalPosition,
   fallingVelocity |-> fallingVelocity, isDragging |-> isDragging,
   dragOffsetX |-> dragOffsetX, dragOffsetY |-> dragOffsetY,
   mouseDownTime |-> mouseDownTime, mouseDownX |-> mouseDownX,
   mouseDownY |-> mouseDownY, hasMoved |-> hasMoved,
   lastMouseX |-> lastMouseX, lastMouseY |-> lastMouseY,
   lastMouseTime |-> lastMouseTime, throwVelocityX |-> throwVelocityX,
   throwVelocityY |-> throwVelocityY, bounceCount |-> bounceCount,
   bubbles |-> bubbles, timers |-> timers]

\* the handler's result becomes the next state
Commit(s) ==
  /\ position' = s.position
  /\ direction' = s.direction
  /\ animationId' = s.animationId
  /\ isJumping' = s.isJumping
  /\ isShowingMessage' = s.isShowingMessage
  /\ messageInterval' = s.messageInterval
  /\ hasAdjustedDirectionForMessage' = s.hasAdjustedDirectionForMessage
  /\ jumpStartTime' = s.jumpStartTime
  /\ jumpCompleted' = s.jumpCompleted
  /\ kubitoState' = s.kubitoState
  /\ stateStartTime' = s.stateStartTime
  /\ currentStateDuration' = s.currentStateDuration
  /\ currentImageState' = s.currentImageState
  /\ isTransitioning' = s.isTransitioning
  /\ lastJumpTime' = s.lastJumpTime
  /\ lastLandingTime' = s.lastLandingTime
  /\ verticalPosition' = s.verticalPosition
  /\ fallingVelocity' = s.fallingVelocity
  /\ isDragging' = s.isDragging
  /\ dragOffsetX' = s.dragOffsetX
  /\ dragOffsetY' = s.dragOffsetY
  /\ mouseDownTime' = s.mouseDownTime
  /\ mouseDownX' = s.mouseDownX
  /\ mouseDownY' = s.mouseDownY
  /\ hasMoved' = s.hasMoved
  /\ lastMouseX' = s.lastMouseX
  /\ lastMouseY' = s.lastMouseY
  /\ lastMouseTime' = s.lastMouseTime
  /\ throwVelocityX' = s.throwVelocityX
  /\ throwVelocityY' = s.throwVelocityY
  /\ bounceCount' = s.bounceCount
  /\ bubbles' = s.bubbles
  /\ timers' = s.timers

\* ----------------------------------------------------- page and timer glue
\* setTimeout: ids only have to differ from the ids of the pending timers
FreshTimerId(ts) ==
  CHOOSE i \in 1..(Cardinality(ts) + 1) :
    /\ \A t \in ts : t.id # i
    /\ \A j \in 1..(Cardinality(ts) + 1) : (\A t \in ts : t.id # j) => i <= j

setTimeout(s, kind, delay) ==
  [s EXCEPT !.timers =
     @ \cup {[kind |-> kind, due |-> now + delay, id |-> FreshTimerId(@)]}]

\* a clearTimeout that cancels nothing (the variant C8 is tested against)
clearTimeout_noop(s, id) == s

clearTimeout(s, id) ==
  [s EXCEPT !.timers = {t \in @ : t.id # id}]

getCenterPosition(width) ==
  ((IF width # 0 THEN width ELSE 300 * PX) - KUBITO_WIDTH) \div 2

getMaxWidth == containerWidth - KUBITO_WIDTH

\* the image URIs are injected by the host, so the change always applies
setKubitoImage(s, image) == [s EXCEPT !.currentImageState = image]

\* ------------------------------------------------------------- messages
\* a hideMessage that leaves the element in the page (the variant C7 is
\* tested against)
hideMessage_keepsOverlay(s) ==
  [s EXCEPT !.isShowingMessage = FALSE,
            !.hasAdjustedDirectionForMessage = FALSE]

\* a hideMessage that removes the element and leaves isShowingMessage set
\* (the variant C22 is tested against)
hideMessage_keepsFlag(s) ==
  [s EXCEPT !.bubbles = IF Len(@) > 0 THEN Tail(@) ELSE @,
            !.hasAdjustedDirectionForMessage = FALSE]

hideMessage(s) ==
  [s EXCEPT !.bubbles = IF Len(@) > 0 THEN Tail(@) ELSE @,
            !.isShowingMessage = FALSE,
            !.hasAdjustedDirectionForMessage = FALSE]

\* a predictor that looks no further than the next frame (the variant C18 is
\* tested against)
willCollideWithBoundary_nextFrameOnly(pos, dir, messageWidth) ==
  LET maxWidth == getMaxWidth
      futurePosition == pos + speed * dir
      messageLeftEdge2 == 2 * futurePosition + KUBITO_WIDTH - messageWidth
      messageRightEdge2 == messageLeftEdge2 + 2 * messageWidth
  IN  \/ futurePosition <= 0 \/ futurePosition >= maxWidth
      \/ /\ messageWidth # Null
         /\ \/ dir = 1 /\ messageRightEdge2 > 2 * containerWidth
            \/ dir = 0 - 1 /\ messageLeftEdge2 < 0

\* a predictor that reports the overlay overflowing on either side, whichever
\* way the sprite faces (the variant C19 is tested against)
willCollideWithBoundary_eitherSide(pos, dir, messageWidth) ==
  LET maxWidth == getMaxWidth
      futurePosition == pos + speed * dir * LOOKAHEAD_FRAMES
      messageLeftEdge2 == 2 * futurePosition + KUBITO_WIDTH - messageWidth
      messageRightEdge2 == messageLeftEdge2 + 2 * messageWidth
  IN  \/ futurePosition <= 0 \/ futurePosition >= maxWidth
      \/ /\ messageWidth # Null
         /\ \/ messageRightEdge2 > 2 * containerWidth
            \/ messageLeftEdge2 < 0

\* messageWidth = Null stands for the omitted argument
willCollideWithBoundary(pos, dir, messageWidth) ==
  LET maxWidth == getMaxWidth
      futurePosition == pos + speed * dir * LOOKAHEAD_FRAMES
      kubitoWillHitBoundary == futurePosition <= 0 \/ futurePosition >= maxWidth
      \* edges doubled, so that the two halves stay integral
      messageLeftEdge2 == 2 * futurePosition + KUBITO_WIDTH - messageWidth
      messageRightEdge2 == messageLeftEdge2 + 2 * messageWidth
  IN  \/ kubitoWillHitBoundary
      \/ /\ messageWidth # Null
         /\ \/ dir = 1 /\ messageRightEdge2 > 2 * containerWidth
            \/ dir = 0 - 1 /\ messageLeftEdge2 < 0

forceShowMessage(s, message) ==
  LET s1 == setKubitoImage([s EXCEPT !.kubitoState = TALKING], "idle")
      s2 == IF willCollideWithBoundary(s1.position, s1.direction, MessageWidth(message))
            THEN [s1 EXCEPT !.direction = 0 - @,
                            !.hasAdjustedDirectionForMessage = TRUE]
            ELSE s1
      s3 == [s2 EXCEPT !.isShowingMessage = TRUE,
                       !.bubbles = Append(@, [content |-> message, shownAt |-> now])]
  IN  setTimeout(s3, "hide", DURATION)

showMessage(s, message) ==
  IF s.isShowingMessage \/ s.isJumping THEN s ELSE forceShowMessage(s, message)

showRandomMessage(s, message) == showMessage(s, message)

\* a showEventMessage without the jump check (the variant C6 is tested
\* against)
showEventMessage_noJumpCheck(s, message) ==
  LET s1 == IF s.messageInterval # Null
            THEN [clearTimeout(s, s.messageInterval) EXCEPT !.messageInterval = Null]
            ELSE s
      s2 == IF s1.isShowingMessage THEN hideMessage(s1) ELSE s1
  IN  forceShowMessage(s2, message)

\* a showEventMessage() that does not hide the overlay on display (the
\* variant C36 is tested against)
showEventMessage_keepsOverlay(s, message) ==
  IF s.isJumping THEN s
  ELSE LET s1 == IF s.messageInterval # Null
                 THEN [clearTimeout(s, s.messageInterval) EXCEPT !.messageInterval = Null]
                 ELSE s
           s2 == s1
       IN  forceShowMessage(s2, message)

showEventMessage(s, message) ==
  IF s.isJumping THEN s
  ELSE LET s1 == IF s.messageInterval # Null
                 THEN [clearTimeout(s, s.messageInterval) EXCEPT !.messageInterval = Null]
                 ELSE s
           s2 == IF s1.isShowingMessage THEN hideMessage(s1) ELSE s1
       IN  forceShowMessage(s2, message)

\* a safe zone as wide as the container (the variant C9 is tested against)
isInSafeZone_always(s) == TRUE

isInSafeZone(s) ==
  LET kubitoCenter == s.position + KUBITO_WIDTH \div 2
  IN  /\ kubitoCenter * 100 >= containerWidth * SAFE_ZONE_MARGIN
      /\ kubitoCenter * 100 <= containerWidth * (100 - SAFE_ZONE_MARGIN)

\* a scheduleNextMessage() on a repeating timer: the timer that fired stays
\* armed for its next period and the callback arms another one (the variant
\* C37 is tested against)
scheduleNextMessage_repeating(s, delay) ==
  LET s1 == setTimeout(s, "scheduler", delay + delay)
      id == FreshTimerId(s1.timers)
  IN  [setTimeout(s1, "scheduler", delay) EXCEPT !.messageInterval = id]

\* setupRandomMessages: scheduleNextMessage arms the one scheduler timer
scheduleNextMessage(s, delay) ==
  LET id == FreshTimerId(s.timers)
  IN  [setTimeout(s, "scheduler", delay) EXCEPT !.messageInterval = id]

\* a timer callback that does not look at the landing cooldown (the variant
\* C14 is tested against)
schedulerCallback_noLandingCooldown(s, message, delay) ==
  LET isInJumpCooldown == now - s.lastJumpTime < POST_JUMP_COOLDOWN
      s1 == IF /\ ~s.isJumping
               /\ ~isInJumpCooldown
               /\ s.kubitoState = PAUSED
               /\ isInSafeZone(s)
            THEN showRandomMessage(s, message)
            ELSE s
  IN  scheduleNextMessage(s1, delay)

\* the scheduler timer's callback
schedulerCallback(s, message, delay) ==
  LET isInJumpCooldown == now - s.lastJumpTime < POST_JUMP_COOLDOWN
      isInLandingCooldown == now - s.lastLandingTime < POST_JUMP_COOLDOWN
      s1 == IF /\ ~s.isJumping
               /\ ~isInJumpCooldown
               /\ ~isInLandingCooldown
               /\ s.kubitoState = PAUSED
               /\ isInSafeZone(s)
            THEN showRandomMessage(s, message)
            ELSE s
  IN  scheduleNextMessage(s1, delay)

\* ----------------------------------------------------------------- jumps
\* a performJump() that leaves jumpCompleted as it is (the variant C40 is
\* tested against)
performJump_keepsCompleted(s) ==
  IF s.isJumping THEN s
  ELSE LET s1 == IF s.isShowingMessage THEN hideMessage(s) ELSE s
       IN  setKubitoImage([s1 EXCEPT !.isJumping = TRUE,
                                     !.jumpStartTime = now], "jumping")

performJump(s) ==
  IF s.isJumping THEN s
  ELSE LET s1 == IF s.isShowingMessage THEN hideMessage(s) ELSE s
       IN  setKubitoImage([s1 EXCEPT !.isJumping = TRUE,
                                     !.jumpStartTime = now,
                                     !.jumpCompleted = FALSE], "jumping")

triggerRandomJump(s) ==
  IF s.isJumping THEN s
  ELSE setKubitoImage([s EXCEPT !.isJumping = TRUE,
                                !.jumpStartTime = now,
                                !.jumpCompleted = FALSE], "jumping")

updateJumpAnimation(s) ==
  IF ~s.isJumping \/ s.jumpStartTime = Null \/ s.jumpCompleted THEN s
  ELSE IF now - s.jumpStartTime >= JUMP_DURATION
       THEN LET targetImage == IF s.kubitoState = WANDERING THEN "walking" ELSE "idle"
                s1 == setKubitoImage([s EXCEPT !.jumpCompleted = TRUE,
                                               !.lastJumpTime = now], targetImage)
                s2 == [s1 EXCEPT !.isJumping = FALSE, !.jumpStartTime = Null]
            IN  setTimeout(s2, "jumpReset", JUMP_RESET_DELAY)
       ELSE s

handleClick(s) ==
  IF s.kubitoState = PAUSED \/ s.kubitoState = WANDERING THEN performJump(s) ELSE s

\* ----------------------------------------------------------- drag & drop
startDragging(s) ==
  LET s1 == IF s.isShowingMessage THEN hideMessage(s) ELSE s
      s2 == setKubitoImage([s1 EXCEPT !.isDragging = TRUE,
                                      !.kubitoState = DRAGGING,
                                      !.stateStartTime = now], "footing")
  IN  [s2 EXCEPT !.lastMouseX = s.mouseDownX,
                 !.lastMouseY = s.mouseDownY,
                 !.lastMouseTime = now,
                 !.throwVelocityX = 0,
                 !.throwVelocityY = 0]

isOutsideViewport(x, y) ==
  x < 0 \/ y < 0 \/ x > containerWidth \/ y > containerHeight

Clamp(v, lo, hi) == Max(lo, Min(hi, v))

\* a dropKubito that scales the measured velocity without clamping it (the
\* variant C17 is tested against)
dropKubito_unclamped(s) ==
  IF ~s.isDragging THEN s
  ELSE LET vx == MulDiv(s.throwVelocityX, THROW_VELOCITY_SCALE, 100)
           vy == MulDiv(s.throwVelocityY, THROW_VELOCITY_SCALE, 100)
       IN  [s EXCEPT !.isDragging = FALSE,
                     !.kubitoState = FALLING,
                     !.bounceCount = 0,
                     !.throwVelocityX = vx,
                     !.throwVelocityY = vy,
                     !.fallingVelocity = 0 - vy,
                     !.stateStartTime = now,
                     !.mouseDownTime = 0,
                     !.hasMoved = FALSE,
                     !.lastMouseTime = 0]

\* a dropKubito() that keeps the bounce counter (the variant C26 is tested
\* against)
dropKubito_keepsCount(s) ==
  IF ~s.isDragging THEN s
  ELSE LET vx == Clamp(MulDiv(s.throwVelocityX, THROW_VELOCITY_SCALE, 100),
                       0 - THROW_MAX_VELOCITY, THROW_MAX_VELOCITY)
           vy == Clamp(MulDiv(s.throwVelocityY, THROW_VELOCITY_SCALE, 100),
                       0 - THROW_MAX_VELOCITY, THROW_MAX_VELOCITY)
       IN  [s EXCEPT !.isDragging = FALSE,
                     !.kubitoState = FALLING,
                     !.throwVelocityX = vx,
                     !.throwVelocityY = vy,
                     !.fallingVelocity = 0 - vy,
                     !.stateStartTime = now,
                     !.mouseDownTime = 0,
                     !.hasMoved = FALSE,
                     !.lastMouseTime = 0]

\* a dropKubito() that leaves the press recorded (the variant C34 is tested
\* against)
dropKubito_keepsPress(s) ==
  IF ~s.isDragging THEN s
  ELSE LET vx == Clamp(MulDiv(s.throwVelocityX, THROW_VELOCITY_SCALE, 100),
                       0 - THROW_MAX_VELOCITY, THROW_MAX_VELOCITY)
           vy == Clamp(MulDiv(s.throwVelocityY, THROW_VELOCITY_SCALE, 100),
                       0 - THROW_MAX_VELOCITY, THROW_MAX_VELOCITY)
       IN  [s EXCEPT !.isDragging = FALSE,
                     !.kubitoState = FALLING,
                     !.bounceCount = 0,
                     !.throwVelocityX = vx,
                     !.throwVelocityY = vy,
                     !.fallingVelocity = 0 - vy,
                     !.stateStartTime = now,
                     !.hasMoved = FALSE,
                     !.lastMouseTime = 0]

\* a dropKubito() that scales the throw velocity a second time (the variant
\* C35 is tested against)
dropKubito_rescaled(s) ==
  IF ~s.isDragging THEN s
  ELSE LET vx == Clamp(MulDiv(MulDiv(s.throwVelocityX, THROW_VELOCITY_SCALE, 100),
                              THROW_VELOCITY_SCALE, 100),
                       0 - THROW_MAX_VELOCITY, THROW_MAX_VELOCITY)
           vy == Clamp(MulDiv(MulDiv(s.throwVelocityY, THROW_VELOCITY_SCALE, 100),
                              THROW_VELOCITY_SCALE, 100),
                       0 - THROW_MAX_VELOCITY, THROW_MAX_VELOCITY)
       IN  [s EXCEPT !.isDragging = FALSE,
                     !.kubitoState = FALLING,
                     !.bounceCount = 0,
                     !.throwVelocityX = vx,
                     !.throwVelocityY = vy,
                     !.fallingVelocity = 0 - vy,
                     !.stateStartTime = now,
                     !.mouseDownTime = 0,
                     !.hasMoved = FALSE,
                     !.lastMouseTime = 0]

dropKubito(s) ==
  IF ~s.isDragging THEN s
  ELSE LET vx == Clamp(MulDiv(s.throwVelocityX, THROW_VELOCITY_SCALE, 100),
                       0 - THROW_MAX_VELOCITY, THROW_MAX_VELOCITY)
           vy == Clamp(MulDiv(s.throwVelocityY, THROW_VELOCITY_SCALE, 100),
                       0 - THROW_MAX_VELOCITY, THROW_MAX_VELOCITY)
       IN  [s EXCEPT !.isDragging = FALSE,
                     !.kubitoState = FALLING,
                     !.bounceCount = 0,
                     !.throwVelocityX = vx,
                     !.throwVelocityY = vy,
                     !.fallingVelocity = 0 - vy,
                     !.stateStartTime = now,
                     !.mouseDownTime = 0,
                     !.hasMoved = FALSE,
                     !.lastMouseTime = 0]

\* the document's mousemove listener, pointer at client coordinates (x, y)
onMouseMove(s, x, y) ==
  LET s1 == IF /\ s.mouseDownTime > 0
               /\ ~s.isDragging
               /\ s.kubitoState # FALLING
               /\ \/ Abs(x - s.mouseDownX) > DRAG_THRESHOLD
                  \/ Abs(y - s.mouseDownY) > DRAG_THRESHOLD
            THEN startDragging([s EXCEPT !.hasMoved = TRUE])
            ELSE s
  IN  IF ~s1.isDragging THEN s1
      ELSE LET deltaTime == now - s1.lastMouseTime
               s2 == IF s1.lastMouseTime > 0 /\ deltaTime > 0
                     THEN [s1 EXCEPT
                             !.throwVelocityX =
                               MulDiv((x - s1.lastMouseX) * 1667, 1, 100 * deltaTime),
                             !.throwVelocityY =
                               0 - MulDiv((y - s1.lastMouseY) * 1667, 1, 100 * deltaTime)]
                     ELSE s1
               s3 == [s2 EXCEPT !.lastMouseX = x, !.lastMouseY = y,
                                !.lastMouseTime = now]
               maxHeight == containerHeight - KUBITO_HEIGHT
           IN  IF isOutsideViewport(x, y) THEN dropKubito(s3)
               ELSE [s3 EXCEPT
                       !.position = Max(0, Min(x - s3.dragOffsetX, getMaxWidth)),
                       !.verticalPosition =
                         Max(0, Min((containerHeight - y) - s3.dragOffsetY, maxHeight))]

\* the sprite's mousedown listener; the press lands (ox, oy) inside the sprite
onMouseDown(s, ox, oy) ==
  IF /\ s.kubitoState # PAUSED
     /\ s.kubitoState # WANDERING
     /\ s.kubitoState # TALKING
  THEN s
  ELSE [s EXCEPT !.mouseDownTime = now,
                 !.mouseDownX = s.position + ox,
                 !.mouseDownY = (containerHeight - s.verticalPosition) - oy,
                 !.hasMoved = FALSE,
                 !.dragOffsetX = ox,
                 !.dragOffsetY = oy]

onMouseUp(s) ==
  LET s1 == IF s.isDragging THEN dropKubito(s)
            ELSE IF s.mouseDownTime > 0 /\ ~s.hasMoved THEN handleClick(s)
            ELSE s
  IN  [s1 EXCEPT !.mouseDownTime = 0, !.hasMoved = FALSE]

onMouseLeave(s) == IF s.isDragging THEN dropKubito(s) ELSE s

onEscapeKey(s) == IF s.isDragging THEN dropKubito(s) ELSE s

\* --------------------------------------------------------------- physics
\* a landKubito without the MIN_BOUNCE_VELOCITY cut-off: every floor contact
\* bounces (the variant C15 is tested against)
landKubito_alwaysBounces(s, pauseDuration) ==
  LET count == s.bounceCount + 1
      progressiveDamping == Min(20 + count * 20, 90)
  IN  [s EXCEPT !.bounceCount = count,
                !.fallingVelocity = MulDiv(0 - @, 100 - progressiveDamping, 100)]

\* a landKubito whose damping does not grow with the bounces (the variant
\* C16 is tested against)
landKubito_flatDamping(s, pauseDuration) ==
  IF Abs(s.fallingVelocity) > MIN_BOUNCE_VELOCITY
  THEN [s EXCEPT !.bounceCount = @ + 1,
                 !.fallingVelocity = MulDiv(0 - @, 100 - BOUNCE_DAMPING, 100)]
  ELSE setKubitoImage([s EXCEPT !.fallingVelocity = 0,
                                !.bounceCount = 0,
                                !.kubitoState = PAUSED,
                                !.lastLandingTime = now,
                                !.stateStartTime = now,
                                !.currentStateDuration = pauseDuration], "idle")

landKubito(s, pauseDuration) ==
  IF Abs(s.fallingVelocity) > MIN_BOUNCE_VELOCITY
  THEN LET count == s.bounceCount + 1
           progressiveDamping == Min(20 + count * 20, 90)
       IN  [s EXCEPT !.bounceCount = count,
                     !.fallingVelocity = MulDiv(0 - @, 100 - progressiveDamping, 100)]
  ELSE setKubitoImage([s EXCEPT !.fallingVelocity = 0,
                                !.bounceCount = 0,
                                !.kubitoState = PAUSED,
                                !.lastLandingTime = now,
                                !.stateStartTime = now,
                                !.currentStateDuration = pauseDuration], "idle")

\* an applyGravity() without the terminal-velocity limit (the variant C28 is
\* tested against)
applyGravity_unlimited(s, pauseDuration) ==
  LET maxWidth == getMaxWidth
      moved == s.position + s.throwVelocityX
      slowed == MulDiv(s.throwVelocityX, THROW_FRICTION, 100)
      s1 == IF Abs(s.throwVelocityX) > THROW_MIN_VELOCITY
            THEN IF moved <= 0
                 THEN [s EXCEPT !.position = 0,
                                !.throwVelocityX = MulDiv(0 - slowed, BOUNCE_DAMPING, 100)]
                 ELSE IF moved >= maxWidth
                 THEN [s EXCEPT !.position = maxWidth,
                                !.throwVelocityX = MulDiv(0 - slowed, BOUNCE_DAMPING, 100)]
                 ELSE [s EXCEPT !.position = moved, !.throwVelocityX = slowed]
            ELSE [s EXCEPT !.throwVelocityX = 0]
      velocity == s1.fallingVelocity + GRAVITY
      s2 == [s1 EXCEPT !.fallingVelocity = velocity,
                       !.verticalPosition = @ - velocity]
      maxHeight == containerHeight - KUBITO_HEIGHT
      s3 == IF s2.verticalPosition >= maxHeight
            THEN [s2 EXCEPT !.verticalPosition = maxHeight,
                            !.fallingVelocity = MulDiv(0 - @, BOUNCE_DAMPING, 100)]
            ELSE s2
  IN  IF s3.verticalPosition <= 0
      THEN landKubito([s3 EXCEPT !.verticalPosition = 0], pauseDuration)
      ELSE s3

applyGravity(s, pauseDuration) ==
  LET maxWidth == getMaxWidth
      moved == s.position + s.throwVelocityX
      slowed == MulDiv(s.throwVelocityX, THROW_FRICTION, 100)
      s1 == IF Abs(s.throwVelocityX) > THROW_MIN_VELOCITY
            THEN IF moved <= 0
                 THEN [s EXCEPT !.position = 0,
                                !.throwVelocityX = MulDiv(0 - slowed, BOUNCE_DAMPING, 100)]
                 ELSE IF moved >= maxWidth
                 THEN [s EXCEPT !.position = maxWidth,
                                !.throwVelocityX = MulDiv(0 - slowed, BOUNCE_DAMPING, 100)]
                 ELSE [s EXCEPT !.position = moved, !.throwVelocityX = slowed]
            ELSE [s EXCEPT !.throwVelocityX = 0]
      velocity == Min(s1.fallingVelocity + GRAVITY, TERMINAL_VELOCITY)
      s2 == [s1 EXCEPT !.fallingVelocity = velocity,
                       !.verticalPosition = @ - velocity]
      maxHeight == containerHeight - KUBITO_HEIGHT
      s3 == IF s2.verticalPosition >= maxHeight
            THEN [s2 EXCEPT !.verticalPosition = maxHeight,
                            !.fallingVelocity = MulDiv(0 - @, BOUNCE_DAMPING, 100)]
            ELSE s2
  IN  IF s3.verticalPosition <= 0
      THEN landKubito([s3 EXCEPT !.verticalPosition = 0], pauseDuration)
      ELSE s3

\* --------------------------------------------------- behaviour transitions
\* rnd holds this frame's Math.random() draws:
\*   wander, pause : the dwell durations drawn,
\*   jump          : jumpRoll < JUMP_CHANCE,   flip : Math.random() < 0.4
initializeWanderingState(s, rnd) ==
  [s EXCEPT !.stateStartTime = now,
            !.currentStateDuration =
              IF s.kubitoState = WANDERING THEN rnd.wander
              ELSE IF s.kubitoState = PAUSED THEN rnd.pause
              ELSE IF s.kubitoState = TALKING THEN TALKING_DURATION
              ELSE IF s.kubitoState = WAVING THEN WAVING_DURATION
              ELSE @]

shouldTransitionState(s) == now - s.stateStartTime >= s.currentStateDuration

\* a transitionKubitoState() whose pause after talking is a drawn one (the
\* variant C32 is tested against)
transitionKubitoState_randomPause(s, rnd) ==
  IF s.isTransitioning THEN s
  ELSE IF s.kubitoState = WAVING
  THEN initializeWanderingState(
         setKubitoImage([s EXCEPT !.kubitoState = WANDERING], "walking"), rnd)
  ELSE IF s.kubitoState = WANDERING
  THEN LET s1 == setKubitoImage([s EXCEPT !.kubitoState = PAUSED], "idle")
           isInJumpCooldown == now - s.lastJumpTime < POST_JUMP_COOLDOWN
           s2 == IF rnd.jump /\ ~s.isShowingMessage /\ ~isInJumpCooldown
                 THEN setTimeout(s1, "randomJump", JUMP_TIMER_DELAY)
                 ELSE s1
       IN  initializeWanderingState(s2, rnd)
  ELSE IF s.kubitoState = PAUSED
  THEN IF ~s.isShowingMessage
       THEN LET s1 == setKubitoImage([s EXCEPT !.kubitoState = WANDERING], "walking")
                s2 == IF rnd.flip THEN [s1 EXCEPT !.direction = 0 - @] ELSE s1
            IN  initializeWanderingState(s2, rnd)
       ELSE initializeWanderingState([s EXCEPT !.kubitoState = TALKING], rnd)
  ELSE IF s.kubitoState = TALKING /\ ~s.isShowingMessage
  THEN initializeWanderingState(
         setKubitoImage([s EXCEPT !.kubitoState = PAUSED], "idle"), rnd)
  ELSE initializeWanderingState(s, rnd)

transitionKubitoState(s, rnd) ==
  IF s.isTransitioning THEN s
  ELSE IF s.kubitoState = WAVING
  THEN initializeWanderingState(
         setKubitoImage([s EXCEPT !.kubitoState = WANDERING], "walking"), rnd)
  ELSE IF s.kubitoState = WANDERING
  THEN LET s1 == setKubitoImage([s EXCEPT !.kubitoState = PAUSED], "idle")
           isInJumpCooldown == now - s.lastJumpTime < POST_JUMP_COOLDOWN
           s2 == IF rnd.jump /\ ~s.isShowingMessage /\ ~isInJumpCooldown
                 THEN setTimeout(s1, "randomJump", JUMP_TIMER_DELAY)
                 ELSE s1
       IN  initializeWanderingState(s2, rnd)
  ELSE IF s.kubitoState = PAUSED
  THEN IF ~s.isShowingMessage
       THEN LET s1 == setKubitoImage([s EXCEPT !.kubitoState = WANDERING], "walking")
                s2 == IF rnd.flip THEN [s1 EXCEPT !.direction = 0 - @] ELSE s1
            IN  initializeWanderingState(s2, rnd)
       ELSE initializeWanderingState([s EXCEPT !.kubitoState = TALKING], rnd)
  ELSE IF s.kubitoState = TALKING /\ ~s.isShowingMessage
  THEN [setKubitoImage([s EXCEPT !.kubitoState = PAUSED], "idle")
          EXCEPT !.currentStateDuration = POST_TALKING_PAUSE,
                 !.stateStartTime = now]
  ELSE initializeWanderingState(s, rnd)

\* the wander step of animate()
wanderStep(s) ==
  LET maxWidth == getMaxWidth
      dir == IF willCollideWithBoundary(s.position, s.direction, Null)
             THEN 0 - s.direction ELSE s.direction
      moved == s.position + speed * dir
  IN  [s EXCEPT !.position = IF moved <= 0 THEN 0
                             ELSE IF moved >= maxWidth THEN maxWidth ELSE moved,
                !.direction = IF moved <= 0 THEN 1
                              ELSE IF moved >= maxWidth THEN 0 - 1 ELSE dir,
                !.verticalPosition = 0]

\* an animate() that runs the wander step before the dwell check (the
\* variant C23 is tested against)
animate_moveFirst(s, rnd) ==
  LET s1 == IF s.kubitoState = FALLING THEN applyGravity(s, rnd.pause)
            ELSE IF s.kubitoState = DRAGGING THEN s
            ELSE IF s.isJumping THEN updateJumpAnimation(s)
            ELSE LET t == IF s.kubitoState = WANDERING THEN wanderStep(s) ELSE s
                 IN  IF shouldTransitionState(t)
                     THEN transitionKubitoState(t, rnd) ELSE t
  IN  [s1 EXCEPT !.animationId = RafId]

\* one animation frame; every path re-arms requestAnimationFrame
\* (isPaused is never set by the controller or its callers: that branch is
\* not taken)
animate(s, rnd) ==
  LET s1 == IF s.kubitoState = FALLING THEN applyGravity(s, rnd.pause)
            ELSE IF s.kubitoState = DRAGGING THEN s
            ELSE IF s.isJumping THEN updateJumpAnimation(s)
            ELSE LET t == IF shouldTransitionState(s)
                          THEN transitionKubitoState(s, rnd) ELSE s
                 IN  IF t.kubitoState = WANDERING THEN wanderStep(t) ELSE t
  IN  [s1 EXCEPT !.animationId = RafId]

\* a start() that greets again (the variant C25 is tested against)
start_greetsAgain(s, rnd) ==
  IF s.animationId = Null
  THEN animate([s EXCEPT !.kubitoState = WAVING, !.stateStartTime = now,
                         !.currentStateDuration = WAVING_DURATION], rnd)
  ELSE s

start(s, rnd) == IF s.animationId = Null THEN animate(s, rnd) ELSE s

stop(s) ==
  LET s1 == IF s.animationId # Null THEN [s EXCEPT !.animationId = Null] ELSE s
      s2 == IF s1.messageInterval # Null
            THEN [clearTimeout(s1, s1.messageInterval) EXCEPT !.messageInterval = Null]
            ELSE s1
  IN  [s2 EXCEPT !.isJumping = FALSE, !.jumpStartTime = Null, !.jumpCompleted = FALSE]

\* ------------------------------------------------------------------ Init
\* new KubitoController() followed by start(), as initializeKubito() runs them
Webview(clocks) ==
  /\ clock \in clocks
  /\ selection = NoSelection
  /\ speed = SPEED
  /\ containerWidth = InitViewport[1] * PX
  /\ containerHeight = InitViewport[2] * PX
  /\ position = getCenterPosition(InitViewport[1] * PX)
  /\ verticalPosition = 0
  /\ direction = 1
  /\ animationId = RafId
  /\ isJumping = FALSE
  /\ isShowingMessage = FALSE
  /\ hasAdjustedDirectionForMessage = FALSE
  /\ jumpStartTime = Null
  /\ jumpCompleted = FALSE
  /\ kubitoState = WAVING
  /\ stateStartTime = StartTime
  /\ currentStateDuration = WAVING_DURATION
  /\ currentImageState = "waving"
  /\ isTransitioning = FALSE
  /\ lastJumpTime = 0
  /\ lastLandingTime = 0
  /\ fallingVelocity = 0
  /\ isDragging = FALSE
  /\ dragOffsetX = 0
  /\ dragOffsetY = 0
  /\ mouseDownTime = 0
  /\ mouseDownX = 0
  /\ mouseDownY = 0
  /\ hasMoved = FALSE
  /\ lastMouseX = 0
  /\ lastMouseY = 0
  /\ lastMouseTime = 0
  /\ throwVelocityX = 0
  /\ throwVelocityY = 0
  /\ bounceCount = 0
  /\ bubbles = <<>>
  /\ \E delay \in SchedulerDelays :
       timers = {[kind |-> "scheduler", due |-> StartTime + delay, id |-> 1]}
  /\ messageInterval = 1
  /\ now = StartTime
  /\ buttonDown = FALSE
  /\ frameDone = TRUE
  /\ nEvents = 0
  /\ lastEvent = [kind |-> "none", message |-> "", wasState |-> WAVING,
                  wasJumping |-> FALSE, wasShowing |-> FALSE, wasMessage |-> ""]
  /\ pressMoved = "none"
  /\ lastRebound = 0

\* the webview's controller, with the extension host's modules untouched
Constructed(clocks) ==
  /\ Webview(clocks)
  /\ localization = ModuleLoaded
  /\ productivity = NoManager

\* the controller as initializeKubito() leaves it
Init == Constructed({StartClock})

\* --------------------------------------------------------------- actions
Randoms ==
  [wander : WanderingDurations, pause : PauseDurations,
   jump : BOOLEAN, flip : BOOLEAN]

\* a timer is run once it is due, the earliest deadline first
Due(t) ==
  /\ t \in timers
  /\ t.due <= now
  /\ \A u \in timers : t.due <= u.due

\* Date.now() moves on: no due timer is left waiting, and the frame loop,
\* while it runs, has had its frame
Tick ==
  /\ now + TimeStep <= StartTime + MaxTime
  /\ \A t \in timers : t.due > now
  /\ animationId # Null => frameDone
  /\ now' = now + TimeStep
  /\ frameDone' = FALSE
  /\ UNCHANGED <<ctlVars, localization, productivity, clock, selection, speed,
                 containerWidth,
                 containerHeight, buttonDown, nEvents,
                 lastEvent, pressMoved, lastRebound>>

\* the fall in progress after a frame that ends in s: a floor bounce is a
\* frame that raises bounceCount
Rebound(s) ==
  IF s.kubitoState # FALLING THEN 0
  ELSE IF s.bounceCount > bounceCount THEN Abs(s.fallingVelocity)
  ELSE lastRebound

\* requestAnimationFrame runs animate()
Frame ==
  /\ animationId # Null
  /\ ~frameDone
  /\ \E rnd \in Randoms :
       LET s == animate(Self, rnd)
       IN  Commit(s) /\ lastRebound' = Rebound(s)
  /\ frameDone' = TRUE
  /\ UNCHANGED <<localization, productivity, clock, selection, speed,
                 containerWidth, containerHeight, now,
                 buttonDown, nEvents,
                 lastEvent, pressMoved>>

SchedulerTimer ==
  /\ \E t \in timers :
       /\ Due(t) /\ t.kind = "scheduler"
       /\ \E message \in RandomMessages, delay \in SchedulerDelays :
            Commit(schedulerCallback([Self EXCEPT !.timers = @ \ {t}], message, delay))
  /\ UNCHANGED envVars

HideTimer ==
  /\ \E t \in timers :
       /\ Due(t) /\ t.kind = "hide"
       /\ Commit(hideMessage([Self EXCEPT !.timers = @ \ {t}]))
  /\ UNCHANGED envVars

RandomJumpTimer ==
  /\ \E t \in timers :
       /\ Due(t) /\ t.kind = "randomJump"
       /\ Commit(triggerRandomJump([Self EXCEPT !.timers = @ \ {t}]))
  /\ UNCHANGED envVars

JumpResetTimer ==
  /\ \E t \in timers :
       /\ Due(t) /\ t.kind = "jumpReset"
       /\ Commit([Self EXCEPT !.timers = @ \ {t}, !.jumpCompleted = FALSE])
  /\ UNCHANGED envVars

MouseDown ==
  /\ ~buttonDown
  /\ nEvents < MaxEvents
  /\ \E ox \in GrabOffsetsX, oy \in GrabOffsetsY :
       Commit(onMouseDown(Self, ox * PX, oy * PX))
  /\ buttonDown' = TRUE
  /\ nEvents' = nEvents + 1
  /\ lastEvent' = Event("press", "")
  /\ pressMoved' = IF kubitoState \in {PAUSED, WANDERING, TALKING}
                   THEN "below" ELSE "none"
  /\ UNCHANGED <<localization, productivity, clock, selection, speed,
                 containerWidth, containerHeight, now,
                 frameDone, lastRebound>>

\* the press in progress, once the pointer is at (x, y): whether its
\* distance from the press point has reached DRAG_THRESHOLD on either axis
Travelled(x, y) ==
  IF pressMoved = "none" THEN "none"
  ELSE IF \/ pressMoved = "reached"
          \/ Abs(x - mouseDownX) >= DRAG_THRESHOLD
          \/ Abs(y - mouseDownY) >= DRAG_THRESHOLD
       THEN "reached"
       ELSE "below"

\* pointer motion with the button up finds mouseDownTime = 0 and no drag
MouseMove ==
  /\ buttonDown
  /\ nEvents < MaxEvents
  /\ \E x \in MouseXs, y \in MouseYs :
       /\ Commit(onMouseMove(Self, x * PX, y * PX))
       /\ pressMoved' = Travelled(x * PX, y * PX)
  /\ nEvents' = nEvents + 1
  /\ lastEvent' = Event("move", "")
  /\ UNCHANGED <<localization, productivity, clock, selection, speed,
                 containerWidth, containerHeight, now,
                 buttonDown, frameDone,
                 lastRebound>>

MouseUp ==
  /\ buttonDown
  /\ Commit(onMouseUp(Self))
  /\ buttonDown' = FALSE
  /\ pressMoved' = "none"
  /\ UNCHANGED <<localization, productivity, clock, selection, speed,
                 containerWidth, containerHeight, now,
                 frameDone, nEvents,
                 lastEvent, lastRebound>>

MouseLeave ==
  /\ Commit(onMouseLeave(Self))
  /\ UNCHANGED envVars

EscapeKey ==
  /\ Commit(onEscapeKey(Self))
  /\ UNCHANGED envVars

\* the host posts {command: 'showMessage'}
ShowEventMessage ==
  /\ nEvents < MaxEvents
  /\ \E message \in EventMessages :
       /\ Commit(showEventMessage(Self, message))
       /\ lastEvent' = Event("forced", message)
  /\ nEvents' = nEvents + 1
  /\ UNCHANGED <<localization, productivity, clock, selection, speed,
                 containerWidth, containerHeight, now,
                 buttonDown, frameDone,
                 pressMoved, lastRebound>>

Resize ==
  /\ nEvents < MaxEvents
  /\ \E vp \in Viewports :
       /\ <<containerWidth, containerHeight>> # <<vp[1] * PX, vp[2] * PX>>
       /\ containerWidth' = vp[1] * PX
       /\ containerHeight' = vp[2] * PX
  /\ nEvents' = nEvents + 1
  /\ lastEvent' = Event("resize", "")
  /\ UNCHANGED <<ctlVars, localization, productivity, clock, selection, speed,
                 now, buttonDown, frameDone,
                 pressMoved, lastRebound>>

Stop ==
  /\ nEvents < MaxEvents
  /\ Commit(stop(Self))
  /\ nEvents' = nEvents + 1
  /\ lastEvent' = Event("stop", "")
  /\ UNCHANGED <<localization, productivity, clock, selection, speed,
                 containerWidth, containerHeight, now,
                 buttonDown, frameDone,
                 pressMoved, lastRebound>>

Start ==
  /\ animationId = Null
  /\ \E rnd \in Randoms : Commit(start(Self, rnd))
  /\ UNCHANGED envVars

Next ==
  \/ Tick
  \/ Frame
  \/ SchedulerTimer
  \/ HideTimer
  \/ RandomJumpTimer
  \/ JumpResetTimer
  \/ MouseDown
  \/ MouseMove
  \/ MouseUp
  \/ MouseLeave
  \/ EscapeKey
  \/ ShowEventMessage

Spec == Init /\ [][Next]_vars

\* the same, with the viewport resized under the running controller
NextResize == Next \/ Resize
SpecResize == Init /\ [][NextResize]_vars

\* the same, with stop() and start() called on the running controller
NextLifecycle == Next \/ Stop \/ Start
SpecLifecycle == Init /\ [][NextLifecycle]_vars

\* ------------------------------------------------------- drop and fall
\* The fall on its own: a drag is in progress, the button is released and
\* the frames of the fall follow one another, FrameStep apart, with no other
\* event in between.
FrameStep == 16
\* the instant of the latest pointer move of the drag
DragTime == StartTime + WAVING_DURATION + TimeStep
\* the viewports the drag takes place in, in pixels
DropViewports == {<<130, 40>>, <<130, 200>>}
\* how high above the floor the sprite is held, in pixels
DragHeights == {0, 4, 100, 164}
\* the pointer velocity the latest mousemove measured, in pixels per frame
\* (throwVelocityX to the right, throwVelocityY upwards)
PointerVelocitiesX == {0 - 60, 0, 7}
PointerVelocitiesY == {0 - 60, 0 - 7, 0, 1, 7, 60}
\* the most bounces a fall has behind it
MaxBounces == 5

\* the controller in the middle of a drag that started from the floor at the
\* centre: the state startDragging() and the mousemove listener leave
Dragged(counts) ==
  /\ clock = StartClock
  /\ selection = NoSelection
  /\ localization = ModuleLoaded
  /\ productivity = NoManager
  /\ speed = SPEED
  /\ \E vp \in DropViewports :
       /\ containerWidth = vp[1] * PX
       /\ containerHeight = vp[2] * PX
  /\ position = getCenterPosition(containerWidth)
  /\ \E h \in DragHeights :
       /\ h * PX <= containerHeight - KUBITO_HEIGHT
       /\ verticalPosition = h * PX
  /\ direction = 1
  /\ animationId = RafId
  /\ isJumping = FALSE
  /\ isShowingMessage = FALSE
  /\ hasAdjustedDirectionForMessage = FALSE
  /\ jumpStartTime = Null
  /\ jumpCompleted = FALSE
  /\ kubitoState = DRAGGING
  /\ stateStartTime = DragTime - TimeStep
  /\ currentStateDuration = WANDERING_MIN
  /\ currentImageState = "footing"
  /\ isTransitioning = FALSE
  /\ lastJumpTime = 0
  /\ lastLandingTime = 0
  /\ fallingVelocity = 0
  /\ isDragging = TRUE
  /\ dragOffsetX = KUBITO_WIDTH \div 2
  /\ dragOffsetY = KUBITO_HEIGHT \div 2
  /\ mouseDownTime = DragTime - TimeStep
  /\ mouseDownX = position + dragOffsetX
  /\ mouseDownY = containerHeight - dragOffsetY
  /\ hasMoved = TRUE
  /\ lastMouseX = position + dragOffsetX
  /\ lastMouseY = (containerHeight - verticalPosition) - dragOffsetY
  /\ lastMouseTime = DragTime
  /\ throwVelocityX \in {v * PX : v \in PointerVelocitiesX}
  /\ throwVelocityY \in {v * PX : v \in PointerVelocitiesY}
  /\ bounceCount \in counts
  /\ bubbles = <<>>
  /\ \E delay \in SchedulerDelays :
       timers = {[kind |-> "scheduler", due |-> StartTime + delay, id |-> 1]}
  /\ messageInterval = 1
  /\ now = DragTime
  /\ buttonDown = TRUE
  /\ frameDone = TRUE
  /\ nEvents = 1 + 1
  /\ lastEvent = [kind |-> "move", message |-> "", wasState |-> DRAGGING,
                  wasJumping |-> FALSE, wasShowing |-> FALSE, wasMessage |-> ""]
  /\ pressMoved = "reached"
  /\ lastRebound = 0

\* a drag of a body that stood on the floor: the landing had reset the
\* bounce counter
InitDrag == Dragged({0})

\* a drag of a body a message had taken out of its fall after some bounces
\* (showEventMessage assigns TALKING in mid-air and the counter stays)
InitRegrab == Dragged(0 .. MaxBounces)

\* a frame of the fall: animate() runs, and the next frame is FrameStep
\* later; the only Math.random() draw of the FALLING branch is the dwell
\* landKubito() starts
FallFrame ==
  /\ animationId # Null
  /\ kubitoState = FALLING
  /\ \E pauseDuration \in PauseDurations :
       LET s == animate(Self, [wander |-> WANDERING_MIN, pause |-> pauseDuration,
                               jump |-> FALSE, flip |-> FALSE])
       IN  Commit(s) /\ lastRebound' = Rebound(s)
  /\ now' = now + FrameStep
  /\ UNCHANGED <<localization, productivity, clock, selection, speed,
                 containerWidth, containerHeight,
                 buttonDown, frameDone, nEvents,
                 lastEvent, pressMoved>>

NextFall ==
  \/ MouseUp
  \/ FallFrame

\* requestAnimationFrame keeps calling animate() back
SpecFall == InitDrag /\ [][NextFall]_vars /\ WF_vars(FallFrame)

\* the three ways a drag ends, and the fall after it
NextDrop ==
  \/ MouseUp
  \/ MouseLeave
  \/ EscapeKey
  \/ FallFrame

SpecDrop == InitRegrab /\ [][NextDrop]_vars

\* ---------------------------------------------------------- floor contact
\* landKubito() on its own: the fall has brought the sprite to the floor with
\* some velocity and some number of bounces behind it, and this frame's
\* applyGravity() hands over to landKubito().
\* fallingVelocity at the contact, in 1/100 px per frame
ContactVelocities ==
  {0 - 1500, 0 - 500, 0 - 201, 0 - 200, 0 - 100, 0, 50, 100, 199, 200, 201,
   210, 250, 300, 500, 750, 1000, 1500}

InitContact ==
  /\ clock = StartClock
  /\ selection = NoSelection
  /\ localization = ModuleLoaded
  /\ productivity = NoManager
  /\ speed = SPEED
  /\ containerWidth = InitViewport[1] * PX
  /\ containerHeight = InitViewport[2] * PX
  /\ position = getCenterPosition(containerWidth)
  /\ verticalPosition = 0
  /\ direction = 1
  /\ animationId = RafId
  /\ isJumping = FALSE
  /\ isShowingMessage = FALSE
  /\ hasAdjustedDirectionForMessage = FALSE
  /\ jumpStartTime = Null
  /\ jumpCompleted = FALSE
  /\ kubitoState = FALLING
  /\ stateStartTime = DragTime
  /\ currentStateDuration = WANDERING_MIN
  /\ currentImageState = "footing"
  /\ isTransitioning = FALSE
  /\ lastJumpTime = 0
  /\ lastLandingTime = 0
  /\ fallingVelocity \in ContactVelocities
  /\ isDragging = FALSE
  /\ dragOffsetX = KUBITO_WIDTH \div 2
  /\ dragOffsetY = KUBITO_HEIGHT \div 2
  /\ mouseDownTime = 0
  /\ mouseDownX = position + dragOffsetX
  /\ mouseDownY = containerHeight - dragOffsetY
  /\ hasMoved = FALSE
  /\ lastMouseX = position + dragOffsetX
  /\ lastMouseY = containerHeight - dragOffsetY
  /\ lastMouseTime = 0
  /\ throwVelocityX = 0
  /\ throwVelocityY = 0
  /\ bounceCount \in 0..MaxBounces
  /\ bubbles = <<>>
  /\ \E delay \in SchedulerDelays :
       timers = {[kind |-> "scheduler", due |-> StartTime + delay, id |-> 1]}
  /\ messageInterval = 1
  /\ now = DragTime + FrameStep
  /\ buttonDown = FALSE
  /\ frameDone = FALSE
  /\ nEvents = 1 + 1
  /\ lastEvent = [kind |-> "move", message |-> "", wasState |-> DRAGGING,
                  wasJumping |-> FALSE, wasShowing |-> FALSE, wasMessage |-> ""]
  /\ pressMoved = "none"
  /\ lastRebound = IF bounceCount = 0 THEN 0 ELSE TERMINAL_VELOCITY

\* applyGravity() has found verticalPosition <= 0 and calls landKubito()
FloorContact ==
  /\ ~frameDone
  /\ kubitoState = FALLING
  /\ verticalPosition = 0
  /\ \E pauseDuration \in PauseDurations :
       LET s == landKubito(Self, pauseDuration)
       IN  Commit(s) /\ lastRebound' = Rebound(s)
  /\ frameDone' = TRUE
  /\ UNCHANGED <<localization, productivity, clock, selection, speed,
                 containerWidth, containerHeight, now,
                 buttonDown, nEvents,
                 lastEvent, pressMoved>>

NextContact == FloorContact

SpecContact == InitContact /\ [][NextContact]_vars

\* ------------------------------------------------------ collision predictor
\* willCollideWithBoundary() on its own: the sprite wanders at some place of
\* the strip, facing either way, at some speed; one frame runs its wander
\* step and the host forces one message, in either order.
\* speed, in 1/100 px per frame
Speeds == {1, 8, 9, 10, 11, 50, 100, 300}
\* distance of the sprite from the left or the right end of its range, in
\* pixels
EdgeGaps == {1, 1 + 1, 12, 47}

InitWander ==
  /\ clock = StartClock
  /\ selection = NoSelection
  /\ localization = ModuleLoaded
  /\ productivity = NoManager
  /\ speed \in Speeds
  /\ \E vp \in Viewports :
       /\ containerWidth = vp[1] * PX
       /\ containerHeight = vp[2] * PX
  /\ \E gap \in EdgeGaps :
       /\ gap * PX <= getMaxWidth
       /\ position \in {gap * PX, getMaxWidth - gap * PX}
  /\ verticalPosition = 0
  /\ direction \in {1, 0 - 1}
  /\ animationId = RafId
  /\ isJumping = FALSE
  /\ isShowingMessage = FALSE
  /\ hasAdjustedDirectionForMessage = FALSE
  /\ jumpStartTime = Null
  /\ jumpCompleted = FALSE
  /\ kubitoState = WANDERING
  /\ stateStartTime = StartTime + WAVING_DURATION
  /\ currentStateDuration = WANDERING_MIN
  /\ currentImageState = "walking"
  /\ isTransitioning = FALSE
  /\ lastJumpTime = 0
  /\ lastLandingTime = 0
  /\ fallingVelocity = 0
  /\ isDragging = FALSE
  /\ dragOffsetX = 0
  /\ dragOffsetY = 0
  /\ mouseDownTime = 0
  /\ mouseDownX = 0
  /\ mouseDownY = 0
  /\ hasMoved = FALSE
  /\ lastMouseX = 0
  /\ lastMouseY = 0
  /\ lastMouseTime = 0
  /\ throwVelocityX = 0
  /\ throwVelocityY = 0
  /\ bounceCount = 0
  /\ bubbles = <<>>
  /\ \E delay \in SchedulerDelays :
       timers = {[kind |-> "scheduler", due |-> StartTime + delay, id |-> 1]}
  /\ messageInterval = 1
  /\ now = StartTime + WAVING_DURATION + TimeStep
  /\ buttonDown = FALSE
  /\ frameDone = FALSE
  /\ nEvents = MaxEvents - 1
  /\ lastEvent = [kind |-> "none", message |-> "", wasState |-> WAVING,
                  wasJumping |-> FALSE, wasShowing |-> FALSE, wasMessage |-> ""]
  /\ pressMoved = "none"
  /\ lastRebound = 0

NextPredict ==
  \/ Frame
  \/ ShowEventMessage

SpecPredict == InitWander /\ [][NextPredict]_vars

\* ------------------------------------------------------- left to itself
\* The controller with nobody touching it: frames and timers only, from
\* construction or from a drag that is being released, over a horizon long
\* enough for every dwell to run out more than once.
MaxLiveTime == 20000

LiveTick ==
  /\ now + TimeStep <= StartTime + MaxLiveTime
  /\ \A t \in timers : t.due > now
  /\ animationId # Null => frameDone
  /\ now' = now + TimeStep
  /\ frameDone' = FALSE
  /\ UNCHANGED <<ctlVars, localization, productivity, clock, selection, speed,
                 containerWidth,
                 containerHeight, buttonDown,
                 nEvents, lastEvent, pressMoved, lastRebound>>

\* the sprite is held a little above the floor of the initial viewport
InitHeld ==
  /\ InitDrag
  /\ containerHeight = InitViewport[2] * PX
  /\ throwVelocityX = 0
  /\ throwVelocityY \in {0, 60 * PX}

InitLive == Init \/ InitHeld

\* the callbacks the event loop runs by itself
Callbacks ==
  \/ LiveTick
  \/ Frame
  \/ SchedulerTimer
  \/ HideTimer
  \/ RandomJumpTimer
  \/ JumpResetTimer

\* the button is released at once; from then on nothing touches the sprite
Unattended == ~buttonDown /\ Callbacks

NextLive ==
  \/ Unattended
  \/ MouseUp

\* the event loop keeps running what is due, and time passes
SpecLive == InitLive /\ [][NextLive]_vars /\ WF_vars(Unattended)

\* ===================================================================== claims
\* The specification's state names, read off the controller's fields:
\* Greeting = WAVING, Resting = PAUSED, Speaking = TALKING, BeingDragged =
\* DRAGGING; the controller never assigns KubitoState.JUMPING, a jump in
\* progress is the isJumping flag, and it takes precedence in animate().
Speaking == kubitoState = TALKING /\ ~isJumping

\* the overlays of the page whose content is a message forced by the host
EventBubbles(bs) == {bs[i] : i \in {j \in DOMAIN bs : bs[j].content \in EventMessages}}

\* the last overlay appended to the page is new in this step
Displays(m) ==
  /\ bubbles' # <<>>
  /\ bubbles'[Len(bubbles')].content = m
  /\ \A i \in DOMAIN bubbles : bubbles[i] # bubbles'[Len(bubbles')]

\* the position is inside the container
Clamped ==
  /\ 0 <= position /\ position <= containerWidth - KUBITO_WIDTH
  /\ 0 <= verticalPosition /\ verticalPosition <= containerHeight - KUBITO_HEIGHT

\* C1 (position-owner exclusivity): in every reachable state at most one of
\* the three position writers is active: the wander step (kubitoState =
\* WANDERING), drag-following (isDragging) and the falling physics step
\* (kubitoState = FALLING).
C1_PositionOwnerExclusive ==
  /\ ~(isDragging /\ kubitoState = WANDERING)
  /\ ~(isDragging /\ kubitoState = FALLING)

\* C2 (strict transition table): whenever kubitoState changes, Greeting is
\* left only to Wandering, BeingDragged only to Falling, Falling only to
\* Resting, and BeingDragged is entered only from Resting, Wandering or
\* Speaking.
C2_TransitionTable ==
  [][/\ (kubitoState = WAVING /\ kubitoState' # WAVING)
          => kubitoState' = WANDERING
     /\ (kubitoState = DRAGGING /\ kubitoState' # DRAGGING)
          => kubitoState' = FALLING
     /\ (kubitoState = FALLING /\ kubitoState' # FALLING)
          => kubitoState' = PAUSED
     /\ (kubitoState # DRAGGING /\ kubitoState' = DRAGGING)
          => kubitoState \in {PAUSED, WANDERING, TALKING}]_vars

\* a frame that runs the physics step, a frame that runs the wander step, a
\* pointer move that sets the position of the dragged sprite
PhysicsStep == Frame /\ kubitoState = FALLING
WanderStep ==
  Frame /\ kubitoState \notin {FALLING, DRAGGING} /\ ~isJumping
        /\ kubitoState' = WANDERING
DragFollowStep == MouseMove /\ isDragging'

\* C3 (clamp invariant): after every movement step (wander step, drag-follow
\* update, physics step) the horizontal position lies in
\* [0, containerWidth - KUBITO_WIDTH] and the vertical offset in
\* [0, containerHeight - KUBITO_HEIGHT], wherever the step started from.
C3_ClampAfterMovement ==
  [][(PhysicsStep \/ WanderStep \/ DragFollowStep) => Clamped']_vars

\* C4 (stale hide timer): a hide timer that fires while the displayed
\* message has not yet been visible for DURATION belongs to an earlier
\* message, and leaves the displayed one in place.
C4_StaleHideTimerIsNoOp ==
  [][(HideTimer /\ bubbles # <<>> /\ now < Head(bubbles).shownAt + DURATION)
       => bubbles' = bubbles]_vars

\* C5 (recurring scheduler): while the frame loop runs, after every scheduler
\* firing and after every forced message a scheduler timer is pending; only
\* a pending timer can invoke the scheduler again.
C5_SchedulerStaysArmed ==
  [][((SchedulerTimer \/ ShowEventMessage) /\ animationId' # Null)
       => \E t \in timers' : t.kind = "scheduler"]_vars

\* C6 (forced message during a jump): a message forced while isJumping
\* changes nothing of the controller or the page (no overlay, same state,
\* direction and scheduler timer, nothing queued), and no later step that is
\* not itself a forced message puts a forced message's overlay on the page.
C6_ForcedDuringJumpRejected ==
  [][/\ (ShowEventMessage /\ isJumping) => UNCHANGED ctlVars
     /\ ~ShowEventMessage => EventBubbles(bubbles') \subseteq EventBubbles(bubbles)]_vars

\* a message was forced during a jump, the jump has ended since, and no
\* overlay is on the page
C6_Witness ==
  /\ lastEvent.kind = "forced"
  /\ lastEvent.wasJumping
  /\ ~isJumping
  /\ lastJumpTime > 0
  /\ bubbles = <<>>

\* C7 (forced message while Speaking): right after the call exactly one
\* overlay exists, it shows the forced message as displayed now, and the
\* overlay of the previous message is gone.
C7_ForcedWhileSpeakingReplaces ==
  [][(ShowEventMessage /\ Speaking)
       => bubbles' = <<[content |-> lastEvent'.message, shownAt |-> now]>>]_vars

\* "commit" was forced while "saved" was displayed, and is the one overlay
C7_Witness ==
  /\ lastEvent.kind = "forced"
  /\ lastEvent.wasState = TALKING
  /\ ~lastEvent.wasJumping
  /\ lastEvent.wasMessage = "saved"
  /\ lastEvent.message = "commit"
  /\ Len(bubbles) = 1
  /\ bubbles[1].content = "commit"

\* C8 (forced message, no jump in progress): the call cancels the scheduler
\* timer, removes the displayed message, and displays the forced one at once:
\* isShowingMessage is set and kubitoState is TALKING when the call returns.
C8_ForcedShownImmediately ==
  [][(ShowEventMessage /\ ~isJumping)
       => /\ messageInterval' = Null
          /\ \A t \in timers' : t.kind # "scheduler"
          /\ bubbles' = <<[content |-> lastEvent'.message, shownAt |-> now]>>
          /\ isShowingMessage'
          /\ kubitoState' = TALKING]_vars

\* the first external event was a forced message that found the sprite
\* wandering with the scheduler timer pending; its overlay is on the page
C8_Witness ==
  /\ nEvents = 1
  /\ lastEvent.kind = "forced"
  /\ lastEvent.wasState = WANDERING
  /\ ~lastEvent.wasJumping
  /\ kubitoState = TALKING
  /\ isShowingMessage
  /\ messageInterval = Null
  /\ Len(bubbles) = 1
  /\ bubbles[1].content = lastEvent.message

C10_OverlayOnlyWhileSpeaking ==
  (bubbles # <<>> \/ isShowingMessage) => kubitoState = TALKING

\* a jump starts in this step
JumpStarts == ~isJumping /\ isJumping'

\* C11 (click versus drag): the release of a press whose pointer stayed
\* below DRAG_THRESHOLD starts a jump (or finds one in progress), and such a
\* press never drags; a press whose pointer moved to DRAG_THRESHOLD or
\* further starts a drag with that move, and its release starts no jump.
C11_ClickXorDrag ==
  [][/\ (MouseUp /\ pressMoved = "below") => isJumping'
     /\ pressMoved' = "below" => (~isDragging' /\ kubitoState' # DRAGGING)
     /\ (MouseMove /\ pressMoved = "below" /\ pressMoved' = "reached")
          => (isDragging' \/ kubitoState' = FALLING)
     /\ (MouseUp /\ pressMoved = "reached") => ~JumpStarts]_vars

\* C12 (in-place click): the release of a press that stayed below
\* DRAG_THRESHOLD, with kubitoState PAUSED, WANDERING or TALKING, starts a
\* jump at that instant; if a jump is already in progress the click leaves
\* it and its start time as they are.
C12_ClickStartsJump ==
  [][(MouseUp /\ pressMoved = "below")
       => IF isJumping
          THEN isJumping' /\ jumpStartTime' = jumpStartTime
          ELSE kubitoState \in {PAUSED, WANDERING, TALKING}
                 => (isJumping' /\ jumpStartTime' = now)]_vars

\* C13 (no overlay during a jump): whenever isJumping holds, no speech
\* overlay is on the page and isShowingMessage is false.
C13_NoOverlayWhileJumping ==
  isJumping => (bubbles = <<>> /\ ~isShowingMessage)

\* the physics step that ends the fall
Landed == Frame /\ kubitoState = FALLING /\ kubitoState' # FALLING

\* the landing cooldown window is open
InLandingCooldown == now - lastLandingTime < POST_JUMP_COOLDOWN

\* what landing establishes: PAUSED on the floor, at rest, the dwell and the
\* cooldown started at this instant
LandedResting ==
  /\ kubitoState' = PAUSED
  /\ verticalPosition' = 0
  /\ fallingVelocity' = 0
  /\ stateStartTime' = now
  /\ currentStateDuration' \in PauseDurations
  /\ lastLandingTime' = now

C15_ProgressiveDampingConverges ==
  /\ [][(kubitoState = FALLING /\ bounceCount > 0 /\ bounceCount' > bounceCount)
          => Abs(fallingVelocity') < lastRebound]_vars
  /\ (kubitoState = FALLING)
       ~> (kubitoState = PAUSED /\ fallingVelocity = 0 /\ verticalPosition = 0)

C15_Witness ==
  /\ kubitoState = FALLING
  /\ bounceCount >= 1 + 1
  /\ Abs(fallingVelocity) < lastRebound

\* C16 (landing rule): a floor contact with |fallingVelocity| above
\* MIN_BOUNCE_VELOCITY raises the bounce counter by one and turns the
\* velocity round, damped by 40% on the first bounce, 60% on the second, 80%
\* on the third and 90% from the fourth on; a floor contact with
\* |fallingVelocity| at or below MIN_BOUNCE_VELOCITY sets the velocity and the
\* bounce counter to 0 and ends the fall (PAUSED).  The damped velocity is
\* compared to the resolution of the fixed-point grid (1/100 px).
DampingPercent(bounce) ==
  CASE bounce = 1 -> 40
    [] bounce = 1 + 1 -> 60
    [] bounce = 1 + 1 + 1 -> 80
    [] OTHER -> 90

C16_LandingRule ==
  [][FloorContact
       => IF Abs(fallingVelocity) > MIN_BOUNCE_VELOCITY
          THEN /\ bounceCount' = bounceCount + 1
               /\ Abs(fallingVelocity' * 100
                      - (0 - fallingVelocity) * (100 - DampingPercent(bounceCount')))
                    < 100
               /\ kubitoState' = FALLING
          ELSE /\ fallingVelocity' = 0
               /\ bounceCount' = 0
               /\ kubitoState' = PAUSED]_vars

C16_Witness ==
  /\ frameDone
  /\ kubitoState = FALLING
  /\ bounceCount > 1 + 1 + 1
  /\ fallingVelocity < 0

\* C17 (throw initialisation): when a drag is released with the measured
\* pointer velocity (throwVelocityX to the right, throwVelocityY upwards),
\* the fall starts with horizontal velocity half of throwVelocityX limited to
\* [-20, 20] px per frame, of the same sign as throwVelocityX, and with
\* falling velocity minus (half of throwVelocityY limited to [-20, 20]); the
\* two axes are limited independently.
HalfLimited(v) ==
  LET half == IF v >= 0 THEN v \div (1 + 1) ELSE 0 - ((0 - v) \div (1 + 1))
  IN  IF half > 20 * PX THEN 20 * PX
      ELSE IF half < 0 - 20 * PX THEN 0 - 20 * PX
      ELSE half

Released == isDragging /\ ~isDragging'

C17_ThrowInitialisation ==
  [][Released
       => /\ kubitoState' = FALLING
          /\ throwVelocityX' = HalfLimited(throwVelocityX)
          /\ (throwVelocityX > 0) = (throwVelocityX' > 0)
          /\ (throwVelocityX < 0) = (throwVelocityX' < 0)
          /\ fallingVelocity' = 0 - HalfLimited(throwVelocityY)]_vars

\* released with an upward velocity above the limit and a rightward one
\* below it
C17_Witness ==
  /\ kubitoState = FALLING
  /\ now = DragTime
  /\ throwVelocityX > 0
  /\ throwVelocityX < THROW_MAX_VELOCITY
  /\ throwVelocityY = THROW_MAX_VELOCITY
  /\ fallingVelocity = 0 - THROW_MAX_VELOCITY

\* the sprite wanders to the right, one pixel short of the end of its range
AtEdgeMinusOne ==
  /\ kubitoState = WANDERING
  /\ ~isJumping
  /\ direction = 1
  /\ position = getMaxWidth - PX

\* C18 (edge-detection sanity), as stated: with the sprite at maxWidth - 1 px
\* and facing right, the predictor with its 10 frame lookahead answers true
\* for every speed above 0, the configured SPEED included, and the wander
\* step of the frame turns the sprite round.
C18_EdgeAlwaysPredicted ==
  [][(Frame /\ AtEdgeMinusOne)
       => /\ willCollideWithBoundary(position, direction, Null)
          /\ direction' = 0 - 1]_vars

\* C18, amended: there the predictor answers true exactly when the speed
\* covers the remaining pixel within the lookahead (speed * 10 >= 1 px, that
\* is speed >= 0.1 px per frame), and the wander step turns the sprite round
\* in exactly those cases; at the configured SPEED of 0.08 it answers false.
C18_EdgePredictedWithinLookahead ==
  [][(Frame /\ AtEdgeMinusOne)
       => /\ willCollideWithBoundary(position, direction, Null)
               = (speed * 10 >= PX)
          /\ (direction' = 0 - 1) = (speed * 10 >= PX)
          /\ speed = SPEED => direction' = 1]_vars

\* the frame has run at the configured SPEED and the sprite still faces right
C18_Witness ==
  /\ frameDone
  /\ speed = SPEED
  /\ kubitoState = WANDERING
  /\ direction = 1
  /\ position = (getMaxWidth - PX) + SPEED

\* where the sprite is projected to be after the lookahead
Projected == position + speed * direction * LOOKAHEAD_FRAMES

\* an overlay of width w centred on the projected sprite sticks out of the
\* container on the side the sprite faces (twice the abscissae, so that halves
\* stay integral)
FacingOverflow(w) ==
  LET centre2 == 2 * Projected + KUBITO_WIDTH
  IN  IF direction = 1 THEN centre2 + w > 2 * containerWidth
      ELSE centre2 - w < 0

TrailingOverflow(w) ==
  LET centre2 == 2 * Projected + KUBITO_WIDTH
  IN  IF direction = 1 THEN centre2 - w < 0
      ELSE centre2 + w > 2 * containerWidth

\* C19 (collision predictor with an overlay width): when the projected
\* position is strictly inside (0, maxWidth), the predictor called with the
\* overlay's width answers true exactly when the overlay centred on the
\* projected sprite overflows the container on the side the sprite faces,
\* and false when it overflows on the trailing side only or not at all;
\* forceShowMessage() turns the sprite round in exactly those cases.
C19_OverlayPredictor ==
  [][\A m \in EventMessages :
       (/\ ShowEventMessage
        /\ Displays(m)
        /\ 0 < Projected
        /\ Projected < getMaxWidth)
         => /\ willCollideWithBoundary(position, direction, MessageWidth(m))
                 = FacingOverflow(MessageWidth(m))
            /\ (direction' = 0 - direction) = FacingOverflow(MessageWidth(m))
            /\ hasAdjustedDirectionForMessage' = FacingOverflow(MessageWidth(m))]_vars

\* a message has been displayed whose overlay overflows behind the sprite
\* only: the sprite still faces right
C19_Witness ==
  /\ lastEvent.kind = "forced"
  /\ isShowingMessage
  /\ bubbles # <<>>
  /\ ~frameDone
  /\ direction = 1
  /\ ~hasAdjustedDirectionForMessage
  /\ 0 < Projected /\ Projected < getMaxWidth
  /\ TrailingOverflow(MessageWidth(Head(bubbles).content))
  /\ ~FacingOverflow(MessageWidth(Head(bubbles).content))

\* C20 (during a jump nothing else moves): from the start of a jump until
\* its completion no step changes the horizontal position or the underlying
\* state, and the step that completes the jump shows the image of that
\* state ("walking" for WANDERING, "idle" otherwise).
C20_JumpFreezesLocomotion ==
  [][isJumping
       => /\ position' = position
          /\ kubitoState' = kubitoState
          /\ ~isJumping'
               => currentImageState'
                    = IF kubitoState = WANDERING THEN "walking" ELSE "idle"]_vars

\* a drag is under way while the jump's flag is still set
C20_Witness ==
  /\ isJumping
  /\ isDragging
  /\ kubitoState = DRAGGING

\* C21 (variant exclusivity): in every reachable state the drag flag is set
\* exactly when the state is DRAGGING, and the jump flag is not set while the
\* state is DRAGGING or FALLING.
C21_OneBehaviourState ==
  /\ isDragging = (kubitoState = DRAGGING)
  /\ kubitoState \in {DRAGGING, FALLING} => ~isJumping

\* a message forced during a drag: the state is TALKING with the drag flag set
C21_Witness ==
  /\ isDragging
  /\ kubitoState = TALKING

\* the longest way round to WANDERING: a full pause, a message shown at its
\* end, the TALKING dwell started over once, the pause after it, one frame
ResponseTime ==
  PAUSE_MAX + TALKING_DURATION + DURATION + POST_TALKING_PAUSE + TimeStep

\* early enough for ResponseTime to fit before the end of the run
InTime == now <= (StartTime + MaxLiveTime) - ResponseTime

Wandering == kubitoState = WANDERING /\ ~isJumping

PlainFrame ==
  /\ Frame
  /\ kubitoState \notin {FALLING, DRAGGING}
  /\ ~isJumping

Fields == [Self EXCEPT !.timers = {}]

\* stop() was the latest call and start() has not followed
Stopped == lastEvent.kind = "stop" /\ animationId = Null

\* C24 (shutdown): after stop() has returned no callback armed before it
\* changes the controller any more (the scheduler timer, the hide timer, the
\* delayed jump timer, the jump-flag reset timer, the animation frame), and
\* no overlay is left displayed.
C24_ShutdownQuiesces ==
  [][Stopped
       => /\ bubbles = <<>>
          /\ (\/ SchedulerTimer \/ HideTimer \/ RandomJumpTimer
              \/ JumpResetTimer \/ Frame) => Fields' = Fields]_vars

\* stopped with the overlay on display and its hide timer pending
C24_Witness ==
  /\ Stopped
  /\ bubbles # <<>>
  /\ \E t \in timers : t.kind = "hide"

\* C25 (initialisation and greeting): the controller starts in WAVING with
\* the body centred and on the floor, and once WAVING has been left no step
\* enters it again.
C25_GreetingOnce ==
  /\ kubitoState = WAVING
  /\ position = getCenterPosition(containerWidth)
  /\ verticalPosition = 0
  /\ [][kubitoState # WAVING => kubitoState' # WAVING]_vars

\* stopped after the greeting was over and started again
C25_Witness ==
  /\ lastEvent.kind = "stop"
  /\ lastEvent.wasState # WAVING
  /\ animationId # Null
  /\ kubitoState # WAVING

\* the drag is ended by one of its three events
DragEnds == MouseUp \/ MouseLeave \/ EscapeKey

\* C26 (ending a drag): in DRAGGING, pointer release, the pointer leaving
\* the document and the Escape key each lead to FALLING with the bounce
\* counter at 0 and the drag flag cleared.
C26_DragEndsInFall ==
  [][(kubitoState = DRAGGING /\ DragEnds)
       => /\ kubitoState' = FALLING
          /\ bounceCount' = 0
          /\ ~isDragging']_vars

\* dropped by the pointer leaving or by Escape, the button still down
C26_Witness ==
  /\ kubitoState = FALLING
  /\ buttonDown
  /\ ~isDragging
  /\ bounceCount = 0
  /\ stateStartTime = now

\* C27 (horizontal bounds): in every reachable state the horizontal position
\* lies in [0, containerWidth - KUBITO_WIDTH], also right after the viewport
\* became narrower while the body was in PAUSED, TALKING or WAVING.
C27_HorizontalBounds ==
  0 <= position /\ position <= getMaxWidth

\* the viewport has just become narrower under a body that stands still
C27_Witness ==
  /\ lastEvent.kind = "resize"
  /\ containerWidth < InitViewport[1] * PX
  /\ kubitoState \in {PAUSED, TALKING, WAVING}
  /\ kubitoState = lastEvent.wasState
  /\ position > getMaxWidth

\* C28 (terminal velocity): after every physics step of a fall the downward
\* velocity is at most TERMINAL_VELOCITY, whatever the clamped throw was and
\* whichever ceiling and floor bounces the fall has had.
C28_TerminalVelocity ==
  [][FallFrame => fallingVelocity' <= TERMINAL_VELOCITY]_vars

\* thrown downwards faster than the limit, and a physics step later
C28_Witness ==
  /\ kubitoState = FALLING
  /\ throwVelocityY = 0 - THROW_MAX_VELOCITY
  /\ fallingVelocity = TERMINAL_VELOCITY
  /\ now = DragTime + FrameStep

\* ------------------------------------------------------ message selection
\* TimeContext
MORNING == "morning"
AFTERNOON == "afternoon"
EVENING == "evening"
LATE_NIGHT == "lateNight"
MONDAY == "monday"
FRIDAY == "friday"
WEEKEND == "weekend"
WORKDAY == "workday"

\* the message keys each context gives priority to
CONTEXTUAL_MESSAGES(context) ==
  CASE context = MORNING ->
         <<"letsCode", "coffee", "caffeinated", "productive", "inspired",
           "motivated", "earlyBird">>
    [] context = AFTERNOON ->
         <<"keepCoding", "productive", "refactorTime", "almostThere",
           "meetingTime">>
    [] context = EVENING ->
         <<"workingLate", "oneMoreBug", "almostThere", "tired", "overtime">>
    [] context = LATE_NIGHT ->
         <<"workingLate", "tired", "sleeping", "nightOwl", "infiniteLoop">>
    [] context = MONDAY -> <<"mondayBlues", "letsCode", "coffee", "motivated">>
    [] context = FRIDAY ->
         <<"fridayFeeling", "deployFriday", "almostThere", "weekend">>
    [] context = WEEKEND ->
         <<"weekend", "procrastinating", "inspired", "sideProject", "chillin">>
    [] context = WORKDAY ->
         <<"productive", "keepCoding", "meetingTime", "debugTime">>

Range(seq) == {seq[i] : i \in DOMAIN seq}

\* a getCurrentTimeContexts() whose morning starts an hour late (the variant
\* C30 is tested against)
getCurrentTimeContexts_lateMorning(date) ==
  LET hour == date.hour
      dayOfWeek == date.dayOfWeek
      timeOfDay == IF hour > 6 /\ hour < 12 THEN <<MORNING>>
                   ELSE IF hour >= 12 /\ hour < 18 THEN <<AFTERNOON>>
                   ELSE IF hour >= 18 /\ hour < 22 THEN <<EVENING>>
                   ELSE <<LATE_NIGHT>>
      day == IF dayOfWeek = 1 THEN <<MONDAY, WORKDAY>>
             ELSE IF dayOfWeek = 5 THEN <<FRIDAY, WORKDAY>>
             ELSE IF dayOfWeek = 0 \/ dayOfWeek = 6 THEN <<WEEKEND>>
             ELSE <<WORKDAY>>
  IN  timeOfDay \o day

\* the contexts of the wall-clock reading date (getHours(), getDay() with
\* 0 = Sunday), in the order they are pushed
getCurrentTimeContexts(date) ==
  LET hour == date.hour
      dayOfWeek == date.dayOfWeek
      timeOfDay == IF hour >= 6 /\ hour < 12 THEN <<MORNING>>
                   ELSE IF hour >= 12 /\ hour < 18 THEN <<AFTERNOON>>
                   ELSE IF hour >= 18 /\ hour < 22 THEN <<EVENING>>
                   ELSE <<LATE_NIGHT>>
      day == IF dayOfWeek = 1 THEN <<MONDAY, WORKDAY>>
             ELSE IF dayOfWeek = 5 THEN <<FRIDAY, WORKDAY>>
             ELSE IF dayOfWeek = 0 \/ dayOfWeek = 6 THEN <<WEEKEND>>
             ELSE <<WORKDAY>>
  IN  timeOfDay \o day

\* the keys of the current contexts; the array is only asked for its length
\* and for membership, so the Set it is made from is kept
getContextualMessageKeys(date) ==
  UNION {Range(CONTEXTUAL_MESSAGES(context)) :
           context \in Range(getCurrentTimeContexts(date))}

\* the built-in table, used when the host injects no translations; a key
\* without an entry stands for itself
getWebviewTranslation(key) ==
  CASE key = "sleeping" -> "Zzz..."
    [] key = "letsCode" -> "Let's code!"
    [] key = "coffee" -> "Coffee?"
    [] key = "vivaKubit" -> "Viva Kubit!"
    [] OTHER -> key

\* the emoji of getLocalizedMessages(), by name, in source order
EmojiContents ==
  <<"nerd", "sunglasses", "upsideDown", "clown", "wave", "interrobang",
    "heart", "noBug", "rocket", "laptop", "fire", "sparkles", "target",
    "wizard", "duck", "ninja", "robot", "snake", "cloudSymbol", "atom">>

\* the keys of the text messages of getLocalizedMessages(), in source order
LocalizedTextKeys ==
  <<"sleeping", "letsCode", "coffee", "vivaKubit", "debugTime", "noMoreBugs",
    "commitTime", "syntaxError", "workingLate", "mondayBlues",
    "fridayFeeling", "stackOverflow", "gitPush", "dockerizing", "keepCoding",
    "almostThere", "greatCode", "refactorTime", "testsPassing", "cleanCode",
    "oneMoreBug", "fullStack", "deployFriday", "helloWorld", "infiniteLoop",
    "nullPointer", "recursion", "leetCode", "algorithm", "bigO",
    "asyncAwait", "callback", "promise", "caffeinated", "tired", "eureka",
    "frustrated", "productive", "procrastinating", "inspired", "rubberDuck",
    "imposter", "genius", "reactTime", "nodeJs", "python", "javascript",
    "typescript", "cssLife", "htmlBasic", "gitMerge", "vscode", "terminal",
    "lunchTime", "breakTime", "overtime", "earlyBird", "nightOwl", "weekend",
    "vacation", "deadline", "crunchTime", "chillin", "existential", "matrix",
    "binary", "quantum", "artificial", "singularity", "metaverse",
    "blockchain", "cloud", "serverless">>

\* the keys getMessageMap() enters, in source order
MessageMapKeys ==
  <<"sleeping", "letsCode", "coffee", "vivaKubit", "debugTime", "noMoreBugs",
    "commitTime", "syntaxError", "workingLate", "mondayBlues",
    "fridayFeeling", "stackOverflow", "gitPush", "dockerizing", "keepCoding",
    "almostThere", "greatCode", "refactorTime", "testsPassing", "cleanCode",
    "oneMoreBug", "fullStack", "deployFriday", "helloWorld", "infiniteLoop",
    "nullPointer", "recursion", "leetCode", "algorithm", "bigO",
    "asyncAwait", "callback", "promise", "caffeinated", "tired", "eureka",
    "frustrated", "productive", "procrastinating", "inspired", "rubberDuck",
    "imposter", "genius", "reactTime", "nodeJs", "python", "javascript",
    "typescript", "cssLife", "htmlBasic", "gitMerge", "vscode", "terminal",
    "lunchTime", "breakTime", "overtime", "earlyBird", "nightOwl", "weekend",
    "motivated", "meetingTime", "sideProject", "vacation", "deadline",
    "crunchTime", "chillin", "existential", "matrix", "binary", "quantum",
    "artificial", "singularity", "metaverse", "blockchain", "cloud",
    "serverless">>

TextMessage(key) == [type |-> "text", content |-> getWebviewTranslation(key)]

getLocalizedMessages ==
  [i \in DOMAIN EmojiContents |-> [type |-> "emoji", content |-> EmojiContents[i]]]
    \o [i \in DOMAIN LocalizedTextKeys |-> TextMessage(LocalizedTextKeys[i])]
    \o <<[type |-> "image", content |-> "kubit-logo"],
         [type |-> "image", content |-> "kubit-love"]>>

\* Map<string, IMessage> as its entries in insertion order
getMessageMap ==
  [i \in DOMAIN MessageMapKeys |->
     [key |-> MessageMapKeys[i], value |-> TextMessage(MessageMapKeys[i])]]

\* Array.prototype.find over the map's entries: the key of the first entry
\* with this content, or no key
foundKey(msg) ==
  LET hits == {i \in DOMAIN getMessageMap : getMessageMap[i].value.content = msg.content}
  IN  IF hits = {} THEN ""
      ELSE getMessageMap[CHOOSE i \in hits : \A j \in hits : i <= j].key

\* the text messages the loop pushes to contextualMessages
isContextual(msg, date) ==
  /\ msg.type = "text"
  /\ foundKey(msg) # ""
  /\ foundKey(msg) \in getContextualMessageKeys(date)

\* Math.floor(length * 0.2)
Fifth(length) == (length * (1 + 1)) \div 10

getContextualMessages(enableContextual, date) ==
  LET allMessages == getLocalizedMessages
      contextualKeys == getContextualMessageKeys(date)
      universalMessages ==
        SelectSeq(allMessages, LAMBDA msg : msg.type = "emoji" \/ msg.type = "image")
      textMessages == SelectSeq(allMessages, LAMBDA msg : msg.type = "text")
      contextualMessages == SelectSeq(textMessages, LAMBDA msg : isContextual(msg, date))
      nonContextualMessages ==
        SelectSeq(textMessages, LAMBDA msg : ~isContextual(msg, date))
      weightedMessages ==
        contextualMessages \o contextualMessages \o contextualMessages
          \o universalMessages
          \o SubSeq(nonContextualMessages, 1,
                    Min(Len(nonContextualMessages),
                        Max(1, Fifth(Len(nonContextualMessages)))))
  IN  IF ~enableContextual THEN allMessages
      ELSE IF contextualKeys = {} THEN allMessages
      ELSE IF Len(weightedMessages) > 0 THEN weightedMessages
      ELSE allMessages

\* every reading of the wall clock
Clocks == [hour : 0 .. 23, dayOfWeek : 0 .. 6]

\* a controller constructed at any hour of any day
InitClock == Constructed(Clocks)

\* getRandomMessage() reads the setting and the clock and asks
\* getContextualMessages() for the pool it then draws from uniformly
GetContextualMessages ==
  /\ \E enableContextual \in BOOLEAN :
       selection' = [enabled |-> enableContextual,
                     contexts |-> getCurrentTimeContexts(clock),
                     pool |-> getContextualMessages(enableContextual, clock)]
  /\ UNCHANGED <<ctlVars, localization, productivity, clock, speed,
                 containerWidth, containerHeight, now,
                 buttonDown, frameDone, nEvents, lastEvent, pressMoved,
                 lastRebound>>

SpecMessages == InitClock /\ [][GetContextualMessages]_vars

\* how many entries of the pool are contextual messages, in percent
ContextualShare(messages, date) ==
  (100 * Cardinality({i \in DOMAIN messages : isContextual(messages[i], date)}))
    \div Len(messages)

\* C29 (contextual weighting): with contextual messages enabled the
\* contextual entries are about 70% of the weighted pool (between 60% and
\* 80%), at every hour of every weekday.
C29_ContextualShare ==
  (selection # NoSelection /\ selection.enabled)
    => /\ ContextualShare(selection.pool, clock) >= 60
       /\ ContextualShare(selection.pool, clock) <= 80

\* the weighted pool of a Wednesday afternoon
C29_Witness ==
  /\ selection # NoSelection
  /\ selection.enabled
  /\ clock = [hour |-> 14, dayOfWeek |-> 3]
  /\ ContextualShare(selection.pool, clock) = 30

\* the time-of-day contexts and the day contexts among the contexts computed
TimeOfDayTags == {context \in Range(selection.contexts) :
                    context \in {MORNING, AFTERNOON, EVENING, LATE_NIGHT}}
DayTags == Range(selection.contexts) \ {MORNING, AFTERNOON, EVENING, LATE_NIGHT}

\* C30 (time-context mapping): every hour gives exactly one time-of-day
\* context (morning 6-11, afternoon 12-17, evening 18-21, late night 22-23
\* and 0-5), and the day contexts are {monday, workday} on Monday,
\* {friday, workday} on Friday, {weekend} on Saturday and Sunday, {workday}
\* from Tuesday to Thursday.
C30_TimeContextMapping ==
  selection # NoSelection
    => /\ Len(selection.contexts) = Cardinality(Range(selection.contexts))
       /\ TimeOfDayTags =
            (CASE clock.hour \in 6 .. 11 -> {MORNING}
               [] clock.hour \in 12 .. 17 -> {AFTERNOON}
               [] clock.hour \in 18 .. 21 -> {EVENING}
               [] clock.hour \in (22 .. 23) \cup (0 .. 5) -> {LATE_NIGHT})
       /\ DayTags =
            (CASE clock.dayOfWeek = 1 -> {MONDAY, WORKDAY}
               [] clock.dayOfWeek = 5 -> {FRIDAY, WORKDAY}
               [] clock.dayOfWeek \in {0, 6} -> {WEEKEND}
               [] clock.dayOfWeek \in {1 + 1, 3, 4} -> {WORKDAY})

\* the contexts of a Friday at 22 o'clock have been computed
C30_Witness ==
  /\ clock = [hour |-> 22, dayOfWeek |-> 5]
  /\ selection.contexts = <<LATE_NIGHT, FRIDAY, WORKDAY>>

\* ------------------------------------------------------------ localization
\* the own keys of TRANSLATIONS
SupportedLanguages == {"en", "es", "fr", "de", "pt", "it"}

\* TRANSLATIONS is an object literal: the names it inherits from
\* Object.prototype
ObjectPrototypeKeys ==
  {"constructor", "hasOwnProperty", "isPrototypeOf", "propertyIsEnumerable",
   "toLocaleString", "toString", "valueOf", "__proto__"}

\* key in TRANSLATIONS: the in operator follows the prototype chain
InTranslations(key) == key \in SupportedLanguages \cup ObjectPrototypeKeys

\* String.prototype.toLowerCase on the strings that occur
ToLowerCase(str) ==
  CASE str = "PT" -> "pt"
    [] str = "toString" -> "tostring"
    [] OTHER -> str

\* vscode.env.language is held as the parts split('-') gives, <<>> for an
\* empty or missing value
detectVSCodeLanguage(vscodeLanguage) ==
  IF vscodeLanguage = <<>> THEN DEFAULT_LANGUAGE
  ELSE LET baseLanguage == ToLowerCase(vscodeLanguage[1])
       IN  IF baseLanguage # "" /\ InTranslations(baseLanguage)
           THEN baseLanguage
           ELSE DEFAULT_LANGUAGE

getUserPreferredLanguage(userLanguage, vscodeLanguage) ==
  IF userLanguage # "" /\ InTranslations(userLanguage)
  THEN userLanguage
  ELSE detectVSCodeLanguage(vscodeLanguage)

\* TRANSLATIONS[key]: the table of a language (named by its code), an
\* inherited member, or undefined
Translations(key) ==
  IF key \in SupportedLanguages THEN key
  ELSE IF key \in ObjectPrototypeKeys THEN "inherited"
  ELSE "undefined"

getCurrentTranslations(currentLanguage) ==
  IF Translations(currentLanguage) # "undefined"
  THEN Translations(currentLanguage)
  ELSE Translations(DEFAULT_LANGUAGE)

setLanguage(loc, language) ==
  LET current == IF language = "auto" THEN detectVSCodeLanguage(loc.envLanguage)
                 ELSE IF InTranslations(language) THEN language
                 ELSE DEFAULT_LANGUAGE
  IN  [loc EXCEPT !.currentLanguage = current,
                  !.returned = getCurrentTranslations(current),
                  !.call = [op |-> "setLanguage", language |-> language]]

initializeLocalization(loc) ==
  [loc EXCEPT !.currentLanguage =
                getUserPreferredLanguage(loc.configLanguage, loc.envLanguage),
              !.call = [op |-> "initializeLocalization", language |-> ""]]

\* the display languages of the editor, the values of the kubito.language
\* setting, and the arguments setLanguage is called with
EnvLanguages ==
  {<<>>, <<"en">>, <<"es", "ES">>, <<"PT", "BR">>, <<"zh", "CN">>,
   <<"constructor">>, <<"toString">>}
ConfigLanguages == {"", "auto", "en", "fr", "zh", "constructor"}
LanguageArgs == {"auto", "en", "es", "de", "it", "zh", "", "toString", "__proto__"}

\* the module loaded in an editor with some display language and setting
InitLocalization ==
  /\ Webview({StartClock})
  /\ productivity = NoManager
  /\ \E vscodeLanguage \in EnvLanguages, userLanguage \in ConfigLanguages :
       localization = [ModuleLoaded EXCEPT !.envLanguage = vscodeLanguage,
                                           !.configLanguage = userLanguage]

SetLanguage ==
  /\ \E language \in LanguageArgs :
       localization' = setLanguage(localization, language)
  /\ UNCHANGED <<ctlVars, productivity, clock, selection, speed, containerWidth,
                 containerHeight, now, buttonDown, frameDone, nEvents,
                 lastEvent, pressMoved, lastRebound>>

\* activation, and the configuration listener after the setting was edited
InitializeLocalization ==
  /\ \E userLanguage \in ConfigLanguages :
       localization' =
         initializeLocalization([localization EXCEPT !.configLanguage = userLanguage])
  /\ UNCHANGED <<ctlVars, productivity, clock, selection, speed, containerWidth,
                 containerHeight, now, buttonDown, frameDone, nEvents,
                 lastEvent, pressMoved, lastRebound>>

NextLocalization == SetLanguage \/ InitializeLocalization

SpecLocalization == InitLocalization /\ [][NextLocalization]_vars

\* C31 (current language): after any sequence of setLanguage and
\* initializeLocalization calls the current language is a supported code;
\* setLanguage with a supported code makes it current, and setLanguage with
\* an unsupported code makes 'en' current and returns the English table.
C31_CurrentLanguageSupported ==
  /\ localization.currentLanguage \in SupportedLanguages
  /\ localization.call.op = "setLanguage"
       => IF localization.call.language \in SupportedLanguages
          THEN localization.currentLanguage = localization.call.language
          ELSE localization.call.language # "auto"
                 => /\ localization.currentLanguage = DEFAULT_LANGUAGE
                    /\ localization.returned = DEFAULT_LANGUAGE

\* setLanguage('toString') has made 'toString' the current language
C31_Witness ==
  /\ localization.call = [op |-> "setLanguage", language |-> "toString"]
  /\ localization.currentLanguage = "toString"
  /\ localization.returned = "inherited"

\* C32 (leaving TALKING): a frame takes the state out of TALKING only when no
\* overlay is displayed, the state it leaves for is PAUSED with the fixed
\* POST_TALKING_PAUSE dwell starting now, and a frame that finds an overlay
\* displayed keeps TALKING.
C32_LeavingTalking ==
  [][(Frame /\ kubitoState = TALKING)
       => /\ kubitoState' # TALKING
               => /\ bubbles = <<>>
                  /\ kubitoState' = PAUSED
                  /\ currentStateDuration' = POST_TALKING_PAUSE
                  /\ stateStartTime' = now
          /\ bubbles # <<>> => kubitoState' = TALKING]_vars

\* the frame after the message was hidden has started the short pause
C32_Witness ==
  /\ kubitoState = PAUSED
  /\ currentStateDuration = POST_TALKING_PAUSE
  /\ stateStartTime = now
  /\ frameDone
  /\ bubbles = <<>>

\* C33 (grounded when not airborne): in every reachable state with the
\* behaviour state WAVING, WANDERING, PAUSED or TALKING the vertical offset
\* is 0; the body is above the floor only in DRAGGING and FALLING.
C33_GroundedUnlessAirborne ==
  kubitoState \in {WAVING, WANDERING, PAUSED, TALKING} => verticalPosition = 0

\* a message forced while the body was held or falling: TALKING in the air
C33_Witness ==
  /\ kubitoState = TALKING
  /\ verticalPosition > 0
  /\ lastEvent.kind = "forced"
  /\ lastEvent.wasState \in {DRAGGING, FALLING}

\* the button is still held after the drag it started was dropped: the body
\* falls, or has landed since that press
DroppedHeld ==
  /\ buttonDown
  /\ ~isDragging
  /\ \/ kubitoState = FALLING
     \/ lastLandingTime > 0 /\ mouseDownTime < lastLandingTime

\* C34 (no re-grab after a drop): once a drag was ended with the button still
\* held, pointer movement starts no new drag and the release neither drops
\* nor starts a jump (neither changes the controller); a drag starts only
\* from a press the sprite accepted and that is still recorded.
C34_NoRegrabAfterDrop ==
  [][/\ (DroppedHeld /\ (MouseMove \/ MouseUp)) => UNCHANGED ctlVars
     /\ (~isDragging /\ isDragging')
          => /\ MouseMove
             /\ pressMoved # "none"
             /\ mouseDownTime > 0]_vars

\* the pointer has moved after Escape or mouseleave dropped the body, the
\* button still down
C34_Witness ==
  /\ DroppedHeld
  /\ lastEvent.kind = "move"
  /\ lastEvent.wasState = FALLING
  /\ mouseDownTime = 0

\* C35 (dropping is idempotent per drag): of the drop triggers of one drag
\* (release, Escape, mouseleave) only the first has an effect: it scales and
\* clamps the throw velocity, and a trigger that finds no drag changes
\* neither the throw velocity, the bounce counter, the falling velocity,
\* the height nor the state.
C35_DropIdempotent ==
  [][DragEnds
       => /\ isDragging
            => /\ throwVelocityX'
                    = Clamp(MulDiv(throwVelocityX, THROW_VELOCITY_SCALE, 100),
                            0 - THROW_MAX_VELOCITY, THROW_MAX_VELOCITY)
               /\ throwVelocityY'
                    = Clamp(MulDiv(throwVelocityY, THROW_VELOCITY_SCALE, 100),
                            0 - THROW_MAX_VELOCITY, THROW_MAX_VELOCITY)
               /\ fallingVelocity' = 0 - throwVelocityY'
          /\ ~isDragging
            => UNCHANGED <<throwVelocityX, throwVelocityY, bounceCount,
                           fallingVelocity, verticalPosition, position,
                           kubitoState, stateStartTime>>]_vars

\* Escape or mouseleave dropped the body and the fall has bounced since,
\* with the button still down: the release is a second trigger of that drag
C35_Witness ==
  /\ kubitoState = FALLING
  /\ ~isDragging
  /\ buttonDown
  /\ bounceCount > 0
  /\ fallingVelocity # 0
  /\ throwVelocityX # 0

\* C36 (one overlay, flag in step with it): at most one speech overlay exists
\* at any time, and isShowingMessage is true exactly when an overlay element
\* is present.
C36_OneOverlay ==
  /\ Len(bubbles) <= 1
  /\ isShowingMessage <=> bubbles # <<>>

\* a forced message arrived while an overlay was displayed, and one overlay
\* (the new one) is displayed
C36_Witness ==
  /\ lastEvent.kind = "forced"
  /\ lastEvent.wasShowing
  /\ Len(bubbles) = 1
  /\ bubbles[1].content = lastEvent.message
  /\ bubbles[1].content # lastEvent.wasMessage
  /\ isShowingMessage

\* the pending timers of the random-message scheduler
SchedulerTimers == {t \in timers : t.kind = "scheduler"}

\* C37 (one scheduler timer): at most one scheduler timer is pending at any
\* time, whatever scheduler firings, forced messages, start and stop calls
\* went before, and it is the one messageInterval names.
C37_OneSchedulerTimer ==
  /\ Cardinality(SchedulerTimers) <= 1
  /\ \A t \in SchedulerTimers : messageInterval = t.id

\* the scheduler timer has fired and its callback armed the next one
C37_Witness ==
  /\ Cardinality(SchedulerTimers) = 1
  /\ \E t \in SchedulerTimers :
       /\ t.due >= StartTime + DELAY_MIN + DELAY_MIN
       /\ t.id = messageInterval

\* C40 (jump bookkeeping): isJumping is set exactly when a jump start time
\* is recorded, and never together with jumpCompleted, so that
\* updateJumpAnimation() does not return early on a started jump.
C40_JumpBookkeeping ==
  /\ isJumping <=> jumpStartTime # Null
  /\ ~(isJumping /\ jumpCompleted)

\* a jump is in progress that started after an earlier jump had completed
C40_Witness ==
  /\ isJumping
  /\ jumpStartTime # Null
  /\ ~jumpCompleted
  /\ lastJumpTime > 0
  /\ jumpStartTime >= lastJumpTime

\* ------------------------------------------------- productivity metrics
\* The ProductivityManager of the extension host (src/core/productivity.ts).
\* Its record sits in the variable productivity: the metrics, the number of
\* onDidChangeTextDocument subscriptions in context.subscriptions, the
\* metrics interval timer, and what the latest call was given and returned.
\* new Date() reads now.  The reminder timers only post messages and touch
\* no metric; they are left out.
MINUTE == 60 * 1000
IDLE_THRESHOLD_MS == 5 * MINUTE

\* text.split('\n').length
SplitLength(text) == Cardinality({i \in 1 .. Len(text) : text[i] = "\n"}) + 1

\* the body of contentChanges.forEach
trackChange(m, change, language) ==
  LET linesChanged == SplitLength(change.text) - 1
      counted == IF language \in DOMAIN m.languages THEN m.languages[language] ELSE 0
      m1 == IF Len(change.text) > change.rangeLength
            THEN [m EXCEPT !.linesWritten = @ + linesChanged,
                           !.languages = [l \in DOMAIN @ \cup {language} |->
                                            IF l = language THEN counted + linesChanged
                                            ELSE @[l]]]
            ELSE IF Len(change.text) < change.rangeLength
                 THEN [m EXCEPT !.linesDeleted = @ + Abs(linesChanged)]
                 ELSE m
  IN  [m1 EXCEPT !.totalKeystrokes = @ + Len(change.text)]

RECURSIVE forEachChange(_, _, _)
forEachChange(m, changes, language) ==
  IF changes = <<>> THEN m
  ELSE forEachChange(trackChange(m, Head(changes), language), Tail(changes), language)

trackFileActivity(m, fileName) == [m EXCEPT !.filesModified = @ \cup {fileName}]

trackTextChanges(m, event) ==
  LET m1 == [m EXCEPT !.lastKeystrokeTime = now, !.lastActivityTime = now]
      m2 == forEachChange(m1, event.contentChanges, event.document.languageId)
  IN  trackFileActivity(m2, event.document.fileName)

\* vscode.workspace.onDidChangeTextDocument fires: every subscription that
\* was registered gets the event
RECURSIVE fireDidChangeTextDocument(_, _, _)
fireDidChangeTextDocument(m, subscriptions, event) ==
  IF subscriptions = 0 THEN m
  ELSE fireDidChangeTextDocument(trackTextChanges(m, event), subscriptions - 1, event)

updateActiveTime(m) ==
  LET timeSinceLastActivity == now - m.lastActivityTime
      timeSinceLastUpdate == now - m.lastKeystrokeTime
  IN  IF timeSinceLastActivity < IDLE_THRESHOLD_MS
      THEN [m EXCEPT !.activeTimeMs = @ + Min(timeSinceLastUpdate, IDLE_THRESHOLD_MS)]
      ELSE m

getProductivityInsights(m) ==
  LET m1 == updateActiveTime(m)
  IN  [m1 EXCEPT !.insights = [sessionDurationMs |-> now - m1.sessionStart,
                               activeTimeMs |-> m1.activeTimeMs]]

showMetricsUpdate(m) == [getProductivityInsights(m) EXCEPT !.posted = "metrics"]

\* the callback of the metrics interval timer
metricsTimerCallback(m) == showMetricsUpdate(updateActiveTime(m))

startMetricsTracking(m, config) ==
  IF config.showMetrics
  THEN [m EXCEPT !.metricsTimer = TRUE,
                 !.metricsPeriod = config.metricsInterval * MINUTE,
                 !.metricsDue = now + config.metricsInterval * MINUTE]
  ELSE m

registerEventListeners(m) == [m EXCEPT !.listeners = @ + 1]

startProductivityTracking(m, config) ==
  registerEventListeners(startMetricsTracking(m, config))

updateConfiguration(m, config) ==
  startProductivityTracking([m EXCEPT !.metricsTimer = FALSE], config)

\* the constructor: initializeMetrics(), then startProductivityTracking()
ProductivityManager(config) ==
  startProductivityTracking(
    [NoManager EXCEPT !.sessionStart = now, !.lastActivityTime = now,
                      !.lastKeystrokeTime = now], config)

\* the kubito.productivity settings: showMetrics and metricsInterval (minutes)
ProductivityConfigs == [showMetrics : BOOLEAN, metricsInterval : {2}]
\* the content changes of an event: typed text, two pasted lines, a deletion
ContentChanges ==
  {[text |-> <<"a">>, rangeLength |-> 0],
   [text |-> <<"a", "\n", "b", "\n">>, rangeLength |-> 0],
   [text |-> <<>>, rangeLength |-> 2]}
TextDocumentChangeEvents ==
  [contentChanges : {<<c>> : c \in ContentChanges}
                      \cup {<<[text |-> <<"a">>, rangeLength |-> 0],
                              [text |-> <<"\n", "b">>, rangeLength |-> 1]>>},
   document : {[fileName |-> "a.ts", languageId |-> "typescript"]}]
\* how far the wall clock moves between two calls
ElapseSteps == {1 * MINUTE, 6 * MINUTE}
MaxSessionMinutes == 7
MaxListeners == 3
MaxChanges == 2
MaxQueries == 2

InitProductivity ==
  /\ Webview({StartClock})
  /\ localization = ModuleLoaded
  /\ \E config \in ProductivityConfigs : productivity = ProductivityManager(config)

\* time passes; the interval timer fires when it is due, so time does not
\* pass beyond its due time
Elapse ==
  /\ \E d \in ElapseSteps :
       /\ now + d <= StartTime + MaxSessionMinutes * MINUTE
       /\ productivity.metricsTimer => now + d <= productivity.metricsDue
       /\ now' = now + d
  /\ UNCHANGED <<ctlVars, localization, productivity, clock, selection, speed,
                 containerWidth, containerHeight, buttonDown, frameDone,
                 nEvents, lastEvent, pressMoved, lastRebound>>

DidChangeTextDocument ==
  /\ productivity.nChanges < MaxChanges
  /\ \E event \in TextDocumentChangeEvents :
       productivity' =
         [fireDidChangeTextDocument(productivity, productivity.listeners, event)
            EXCEPT !.event = event, !.call = "change", !.nChanges = @ + 1]
  /\ UNCHANGED <<ctlVars, localization, clock, selection, speed,
                 containerWidth, containerHeight, now, buttonDown, frameDone,
                 nEvents, lastEvent, pressMoved, lastRebound>>

UpdateConfiguration ==
  /\ productivity.listeners < MaxListeners
  /\ \E config \in ProductivityConfigs :
       productivity' = [updateConfiguration(productivity, config)
                          EXCEPT !.call = "updateConfiguration"]
  /\ UNCHANGED <<ctlVars, localization, clock, selection, speed,
                 containerWidth, containerHeight, now, buttonDown, frameDone,
                 nEvents, lastEvent, pressMoved, lastRebound>>

MetricsTimer ==
  /\ productivity.metricsTimer
  /\ productivity.metricsDue <= now
  /\ productivity' =
       [metricsTimerCallback(productivity)
          EXCEPT !.metricsDue = @ + productivity.metricsPeriod, !.call = "timer"]
  /\ UNCHANGED <<ctlVars, localization, clock, selection, speed,
                 containerWidth, containerHeight, now, buttonDown, frameDone,
                 nEvents, lastEvent, pressMoved, lastRebound>>

GetProductivityInsights ==
  /\ productivity.nQueries < MaxQueries
  /\ productivity' = [getProductivityInsights(productivity)
                        EXCEPT !.call = "insights", !.nQueries = @ + 1]
  /\ UNCHANGED <<ctlVars, localization, clock, selection, speed,
                 containerWidth, containerHeight, now, buttonDown, frameDone,
                 nEvents, lastEvent, pressMoved, lastRebound>>

NextProductivity ==
  \/ Elapse
  \/ DidChangeTextDocument
  \/ UpdateConfiguration
  \/ MetricsTimer
  \/ GetProductivityInsights

SpecProductivity == InitProductivity /\ [][NextProductivity]_vars

\* what one event is worth: the line breaks of its insertions, and the
\* characters of its changes
RECURSIVE InsertedLines(_)
InsertedLines(changes) ==
  IF changes = <<>> THEN 0
  ELSE (IF Len(Head(changes).text) > Head(changes).rangeLength
        THEN SplitLength(Head(changes).text) - 1 ELSE 0)
       + InsertedLines(Tail(changes))

RECURSIVE Keystrokes(_)
Keystrokes(changes) ==
  IF changes = <<>> THEN 0
  ELSE Len(Head(changes).text) + Keystrokes(Tail(changes))

\* C38 (each editor event counted once): whatever updateConfiguration calls
\* went before, one text-document change event adds its inserted lines and
\* its keystrokes to the session metrics exactly once.
C38_ChangeCountedOnce ==
  [][DidChangeTextDocument
       => LET changes == productivity'.event.contentChanges
          IN  /\ productivity'.linesWritten
                   = productivity.linesWritten + InsertedLines(changes)
              /\ productivity'.totalKeystrokes
                   = productivity.totalKeystrokes + Keystrokes(changes)]_vars

\* after an updateConfiguration call one change event was counted more than
\* once
C38_Witness ==
  /\ productivity.call = "change"
  /\ productivity.listeners > 1
  /\ productivity.nChanges = 1
  /\ productivity.totalKeystrokes
       = productivity.listeners * Keystrokes(productivity.event.contentChanges)
  /\ productivity.linesWritten
       > InsertedLines(productivity.event.contentChanges)

\* C39 (active time within the session): the accumulated active coding time
\* never exceeds the wall-clock time elapsed since the session started.
C39_ActiveTimeBounded ==
  productivity.activeTimeMs <= now - productivity.sessionStart

\* insight queries with no editing at all have pushed the active time
\* beyond the length of the session
C39_Witness ==
  /\ productivity.call = "insights"
  /\ productivity.nChanges = 0
  /\ productivity.nQueries > 1
  /\ productivity.insights.activeTimeMs > productivity.insights.sessionDurationMs

====
